---- MODULE Spec2Model ----
(***************************************************************************)
(* Model of the nexus-wasm-bridge execution engine: capability tokens,     *)
(* the execution context and its host functions, the WasmInstance state    *)
(* machine, the InstancePool and the WasmRuntime facade.                   *)
(*                                                                         *)
(* Conventions.                                                            *)
(*   Option<T>   : <<>> is None, <<x>> is Some(x).                         *)
(*   String      : the sequence of its ':'-separated segments, which is    *)
(*                 what str::split(':') yields ("state:read:a" is          *)
(*                 <<"state","read","a">>).                                *)
(*   Uuid::new_v4: a fresh number drawn from the counter next_uuid.        *)
(***************************************************************************)
EXTENDS Integers, Sequences, FiniteSets, TLC

None == <<>>

Some(x) == <<x>>

IsSome(o) == o /= <<>>

Unwrap(o) == o[1]

(***************************************************************************)
(* Bounds of the model.                                                    *)
(***************************************************************************)
\* number of concurrent callers of the runtime facade
NumCallers == 2
\* number of suspension ids (uuids) the guest may draw
MaxUuid == 2
\* number of suspension ids the guests of the pool specification may draw
MaxPoolUuid == 1
\* executions time out only while fewer instances than this were created
MaxCreated == 2
\* longest effect list the guest builds in one invocation chain
MaxEffects == 2
\* RuntimeConfig.max_instances of the modelled pool
max_instances == 1
\* number of state_set calls of one guest run in the pool specification
MaxScriptLen == 1

\* threads calling the compiler
NumThreads == 2

\* the cache budgets tried, in bytes
SmallBudget == 0
Budget == 8

\* RuntimeConfig.max_host_calls of the modelled runtime
max_host_calls == 2

\* the host-call counter is followed up to this value
MaxHostCallCount == 4

\* number of check_host_call_limit calls followed on one HostFunctions
MaxChecks == 8

(***************************************************************************)
(* Program constants.                                                      *)
(***************************************************************************)
\* pre-warm count, config.min_instances.unwrap_or(1)
min_instances == 1
\* error_codes
PERMISSION_DENIED == -1
NOT_FOUND == -4
SUCCESS == 0
RESOURCE_LIMIT == -2
\* 2^16: a u32 is kept as its two 16-bit halves
U16 == 65536

(***************************************************************************)
(* u32 : [hi, lo] stands for hi * 2^16 + lo                                *)
(***************************************************************************)
u32(n) == [hi |-> n \div U16, lo |-> n % U16]

\* u32::MAX
u32_MAX == [hi |-> U16 - 1, lo |-> U16 - 1]

\* a > b
u32_gt(a, b) == a.hi > b.hi \/ (a.hi = b.hi /\ a.lo > b.lo)

\* x + 1 as a number (2^32 is [hi |-> U16, lo |-> 0])
u32_succ(x) == IF x.lo < U16 - 1 THEN [x EXCEPT !.lo = @ + 1] ELSE [hi |-> x.hi + 1, lo |-> 0]

\* x + 1 in a build without overflow checks: u32::MAX + 1 is 0
u32_wrapping_succ(x) == IF x = u32_MAX THEN u32(0) ELSE u32_succ(x)

(***************************************************************************)
(* capability.rs                                                           *)
(***************************************************************************)
\* a CapabilityToken: the variant and, for a scoped variant, its String
Tok(tag, arg) == [tag |-> tag, arg |-> arg]

\* format!("{prefix}:{}", name)
Fmt(prefix, name) == prefix \o name

\* CapabilityToken::matches : the match on (self, required.split(':'))
matches(tok, required) ==
    LET parts == required
        three(x, y) == Len(parts) = 3 /\ parts[1] = x /\ parts[2] = y
        two(x) == Len(parts) = 2 /\ parts[1] = x
    IN CASE tok.tag = "StateReadAll" -> three("state", "read")
         [] tok.tag = "StateRead" -> three("state", "read") /\ tok.arg = <<parts[3]>>
         [] tok.tag = "StateWriteAll" -> three("state", "write")
         [] tok.tag = "StateWrite" -> three("state", "write") /\ tok.arg = <<parts[3]>>
         [] tok.tag = "EventsEmitAll" -> three("events", "emit")
         [] tok.tag = "EventsEmit" -> three("events", "emit") /\ tok.arg = <<parts[3]>>
         [] tok.tag = "ViewUpdateAll" -> three("view", "update")
         [] tok.tag = "ViewUpdate" -> three("view", "update") /\ tok.arg = <<parts[3]>>
         [] tok.tag = "ExtensionAll" -> two("ext")
         [] tok.tag = "Extension" -> two("ext") /\ tok.arg = <<parts[2]>>
         [] OTHER -> FALSE

\* CapabilityChecker::check
check(capabilities, req) == \E c \in capabilities : matches(c, req)

\* the variants with a String, and the prefix of what they are written as
Prefix(tag) ==
    CASE tag \in {"StateRead", "StateReadAll"} -> <<"state", "read">>
      [] tag \in {"StateWrite", "StateWriteAll"} -> <<"state", "write">>
      [] tag \in {"EventsEmit", "EventsEmitAll"} -> <<"events", "emit">>
      [] tag \in {"ViewUpdate", "ViewUpdateAll"} -> <<"view", "update">>
      [] tag \in {"Extension", "ExtensionAll"} -> <<"ext">>

ScopedTags == {"StateRead", "StateWrite", "EventsEmit", "ViewUpdate", "Extension"}

WildcardTags ==
    {"StateReadAll", "StateWriteAll", "EventsEmitAll", "ViewUpdateAll", "ExtensionAll"}

\* CapabilityToken::to_string_repr
to_string_repr(tok) ==
    IF tok.tag \in ScopedTags THEN Fmt(Prefix(tok.tag), tok.arg)
    ELSE Prefix(tok.tag) \o <<"*">>

\* CapabilityToken::parse : the match on s.split(':'), the arms in their order
parse(s) ==
    LET parts == s
        three(x, y) == Len(parts) = 3 /\ parts[1] = x /\ parts[2] = y
        two(x) == Len(parts) = 2 /\ parts[1] = x
    IN CASE three("state", "read") /\ parts[3] = "*" -> Some(Tok("StateReadAll", <<>>))
         [] three("state", "write") /\ parts[3] = "*" -> Some(Tok("StateWriteAll", <<>>))
         [] three("state", "read") /\ parts[3] /= "*" -> Some(Tok("StateRead", <<parts[3]>>))
         [] three("state", "write") /\ parts[3] /= "*" -> Some(Tok("StateWrite", <<parts[3]>>))
         [] three("events", "emit") /\ parts[3] = "*" -> Some(Tok("EventsEmitAll", <<>>))
         [] three("events", "emit") /\ parts[3] /= "*" -> Some(Tok("EventsEmit", <<parts[3]>>))
         [] three("view", "update") /\ parts[3] = "*" -> Some(Tok("ViewUpdateAll", <<>>))
         [] three("view", "update") /\ parts[3] /= "*" -> Some(Tok("ViewUpdate", <<parts[3]>>))
         [] two("ext") /\ parts[2] = "*" -> Some(Tok("ExtensionAll", <<>>))
         [] two("ext") /\ parts[2] /= "*" -> Some(Tok("Extension", <<parts[2]>>))
         [] OTHER -> None

(***************************************************************************)
(* context.rs : ExecutionContext                                           *)
(***************************************************************************)
\* ExecutionContext::from_wasm_context
from_wasm_context(caps, registry) ==
    [capabilities |-> caps,
     extension_registry |-> registry,
     state_mutations |-> <<>>,
     events |-> <<>>,
     view_commands |-> <<>>,
     log_messages |-> <<>>,
     host_call_count |-> u32(0),
     suspension |-> None]

\* ExecutionContext::has_capability
has_capability(ctx, cap) == \E c \in ctx.capabilities : matches(c, cap)

\* ExecutionContext::increment_host_calls: the context after it (the new count
\* is its host_call_count).  host_call_count += 1 on a u32: the build without
\* overflow checks, where it wraps (with them the call panics at u32::MAX)
increment_host_calls(ctx) == [ctx EXCEPT !.host_call_count = u32_wrapping_succ(@)]

add_mutation(ctx, m) == [ctx EXCEPT !.state_mutations = Append(@, m)]

\* add_event putting the event at the front
add_event_front(ctx, e) == [ctx EXCEPT !.events = <<e>> \o @]

add_event(ctx, e) == [ctx EXCEPT !.events = Append(@, e)]

add_view_command(ctx, c) == [ctx EXCEPT !.view_commands = Append(@, c)]

add_log(ctx, level, message) ==
    [ctx EXCEPT !.log_messages = Append(@, [level |-> level, message |-> message])]

\* the value a host function hands back: the context after it and its HostResult
Ret(ctx, code) == [ctx |-> ctx, ret |-> code]

\* HostFunctions::check_host_call_limit: increments, then compares with the cap
check_host_call_limit(ctx, max) ==
    LET c == increment_host_calls(ctx) IN
    Ret(c, IF u32_gt(c.host_call_count, max) THEN RESOURCE_LIMIT ELSE SUCCESS)

(***************************************************************************)
(* host_functions/state.rs, events.rs, view.rs, logging.rs, extension.rs   *)
(***************************************************************************)
\* state_set recording before (without) the capability check
state_set_unchecked(ctx, key, value) ==
    Ret(add_mutation(ctx, [key |-> key, value |-> value, operation |-> "Set"]), SUCCESS)

state_set(ctx, key, value) ==
    IF ~has_capability(ctx, Fmt(<<"state", "write">>, key))
       /\ ~has_capability(ctx, <<"state", "write", "*">>)
    THEN Ret(ctx, PERMISSION_DENIED)
    ELSE Ret(add_mutation(ctx, [key |-> key, value |-> value, operation |-> "Set"]), SUCCESS)

state_delete(ctx, key) ==
    IF ~has_capability(ctx, Fmt(<<"state", "write">>, key))
       /\ ~has_capability(ctx, <<"state", "write", "*">>)
    THEN Ret(ctx, PERMISSION_DENIED)
    ELSE Ret(add_mutation(ctx, [key |-> key, value |-> "Null", operation |-> "Delete"]), SUCCESS)

emit_event(ctx, event_name, payload) ==
    IF ~has_capability(ctx, Fmt(<<"events", "emit">>, event_name))
       /\ ~has_capability(ctx, <<"events", "emit", "*">>)
    THEN Ret(ctx, PERMISSION_DENIED)
    ELSE Ret(add_event(ctx, [name |-> event_name, payload |-> payload]), SUCCESS)

\* the capability string view_command requires for a command
view_required(command) ==
    IF IsSome(command.component_id)
    THEN Fmt(<<"view", "update">>, Unwrap(command.component_id))
    ELSE <<"view", "update", "*">>

view_command(ctx, command) ==
    IF ~has_capability(ctx, view_required(command))
       /\ ~has_capability(ctx, <<"view", "update", "*">>)
    THEN Ret(ctx, PERMISSION_DENIED)
    ELSE Ret(add_view_command(ctx, command), SUCCESS)

\* impl From<i32> for LogLevel
LogLevelFrom(level) ==
    CASE level = 0 -> "Debug"
      [] level = 1 -> "Info"
      [] level = 2 -> "Warn"
      [] level = 3 -> "Error"
      [] OTHER -> "Info"

log(ctx, level, message) == Ret(add_log(ctx, LogLevelFrom(level), message), SUCCESS)

\* ext_suspend without its capability check
ext_suspend_unchecked(ctx, ext_name, method, args, uuid) ==
    IF ext_name \notin DOMAIN ctx.extension_registry
    THEN Ret(ctx, NOT_FOUND)
    ELSE IF method \notin ctx.extension_registry[ext_name]
    THEN Ret(ctx, NOT_FOUND)
    ELSE Ret([ctx EXCEPT !.suspension =
                  Some([id |-> uuid, extension_name |-> ext_name,
                        method |-> method, args |-> args])],
             SUCCESS)

\* ext_suspend; uuid is the value Uuid::new_v4() returns
ext_suspend(ctx, ext_name, method, args, uuid) ==
    IF ext_name \notin DOMAIN ctx.extension_registry
    THEN Ret(ctx, NOT_FOUND)
    ELSE IF method \notin ctx.extension_registry[ext_name]
    THEN Ret(ctx, NOT_FOUND)
    ELSE IF ~has_capability(ctx, Fmt(<<"ext">>, ext_name))
            /\ ~has_capability(ctx, <<"ext", "*">>)
    THEN Ret(ctx, PERMISSION_DENIED)
    ELSE Ret([ctx EXCEPT !.suspension =
                  Some([id |-> uuid, extension_name |-> ext_name,
                        method |-> method, args |-> args])],
             SUCCESS)

(***************************************************************************)
(* engine/instance.rs : WasmInstance                                       *)
(***************************************************************************)
InstanceState == {"Idle", "Executing", "Suspended", "Terminated"}

\* WasmInstance::new
new_instance(id) ==
    [id |-> id, state |-> "Idle", context |-> None, suspension_id |-> None]

\* reset without its check for a terminated instance
reset_unguarded(inst) ==
    [ok |-> TRUE,
     inst |-> [inst EXCEPT !.state = "Idle", !.context = None, !.suspension_id = None]]

\* WasmInstance::reset : [ok, inst]
reset(inst) ==
    IF inst.state = "Terminated"
    THEN [ok |-> FALSE, inst |-> inst]
    ELSE [ok |-> TRUE,
          inst |-> [inst EXCEPT !.state = "Idle", !.context = None,
                                !.suspension_id = None]]

\* WasmInstance::terminate
terminate(inst) ==
    [inst EXCEPT !.state = "Terminated", !.context = None, !.suspension_id = None]

\* Result<WasmResult>: Ok(WasmResult) or Err(RuntimeError)
OkResult(status, ctx, suspension, error) ==
    [kind |-> "Ok", status |-> status,
     state_mutations |-> ctx.state_mutations,
     events |-> ctx.events,
     view_commands |-> ctx.view_commands,
     suspension |-> suspension, error |-> error,
     cache_hit |-> FALSE]

\* WasmResult::error(e, metrics): no effects attached
ErrorResult(code) ==
    [kind |-> "Ok", status |-> "Error",
     state_mutations |-> <<>>, events |-> <<>>, view_commands |-> <<>>,
     suspension |-> None, error |-> Some(code),
     cache_hit |-> FALSE]

\* Err(e) of a Result<WasmResult>
ErrResult(e) ==
    [kind |-> "Err", status |-> e,
     state_mutations |-> <<>>, events |-> <<>>, view_commands |-> <<>>,
     suspension |-> None, error |-> Some(e),
     cache_hit |-> FALSE]

\* Ok(()) of WasmRuntime::shutdown
UnitResult ==
    [kind |-> "Ok", status |-> "Unit",
     state_mutations |-> <<>>, events |-> <<>>, view_commands |-> <<>>,
     suspension |-> None, error |-> None,
     cache_hit |-> FALSE]

\* ExecutionMetrics::with_cache_hit on the metrics of result r
with_cache_hit(r, hit) == [r EXCEPT !.cache_hit = hit]

\* SuspensionDetails built from the context's SuspensionState
details(s) ==
    [suspension_id |-> s.id, extension_name |-> s.extension_name,
     method |-> s.method, args |-> s.args]

\* execute going on with the context the instance still holds
execute_begin_reusing(inst, caps, registry) ==
    IF inst.state /= "Idle"
    THEN [ok |-> FALSE, inst |-> inst]
    ELSE [ok |-> TRUE,
          inst |-> [inst EXCEPT !.state = "Executing",
                                !.context = IF IsSome(inst.context) THEN inst.context
                                            ELSE Some(from_wasm_context(caps, registry))]]

\* execute without its check for an idle instance
execute_begin_unguarded(inst, caps, registry) ==
    [ok |-> TRUE,
     inst |-> [inst EXCEPT !.state = "Executing",
                           !.context = Some(from_wasm_context(caps, registry))]]

\* WasmInstance::execute up to the engine call: [ok, inst]
execute_begin(inst, caps, registry) ==
    IF inst.state /= "Idle"
    THEN [ok |-> FALSE, inst |-> inst]
    ELSE [ok |-> TRUE,
          inst |-> [inst EXCEPT !.state = "Executing",
                                !.context = Some(from_wasm_context(caps, registry))]]

\* WasmInstance::execute after the engine returned (engine_ok: Ok(_) or Err(e)),
\* ctx being the shared context the guest worked on: [inst, result]
execute_finish(inst, ctx, engine_ok) ==
    IF engine_ok
    THEN IF IsSome(ctx.suspension)
         THEN [inst |-> [inst EXCEPT !.state = "Suspended",
                                     !.suspension_id = Some(Unwrap(ctx.suspension).id)],
               result |-> OkResult("Suspended", ctx,
                                   Some(details(Unwrap(ctx.suspension))), None)]
         ELSE [inst |-> [inst EXCEPT !.state = "Idle"],
               result |-> OkResult("Success", ctx, None, None)]
    ELSE [inst |-> [inst EXCEPT !.state = "Idle"],
          result |-> OkResult("Error", ctx, None, Some("EXECUTION_ERROR"))]

\* WasmInstance::resume up to the engine call: [ok, inst]
resume_begin(inst) ==
    IF inst.state /= "Suspended"
    THEN [ok |-> FALSE, inst |-> inst]
    ELSE [ok |-> TRUE,
          inst |-> [inst EXCEPT !.state = "Executing", !.suspension_id = None]]

\* WasmInstance::resume handing the engine's error on with `?`
resume_finish_propagate(inst, engine_ok) ==
    IF ~IsSome(inst.context)
    THEN [inst |-> inst, result |-> ErrResult("InvalidState")]
    ELSE LET ctx == Unwrap(inst.context) IN
         IF engine_ok
         THEN IF IsSome(ctx.suspension)
              THEN [inst |-> [inst EXCEPT !.state = "Suspended",
                                          !.suspension_id = Some(Unwrap(ctx.suspension).id)],
                    result |-> OkResult("Suspended", ctx,
                                        Some(details(Unwrap(ctx.suspension))), None)]
              ELSE [inst |-> [inst EXCEPT !.state = "Idle", !.context = None],
                    result |-> OkResult("Success", ctx, None, None)]
         ELSE [inst |-> [inst EXCEPT !.state = "Idle", !.context = None],
               result |-> ErrResult("EXECUTION_ERROR")]

\* WasmInstance::resume after the engine returned: [inst, result]
resume_finish(inst, engine_ok) ==
    IF ~IsSome(inst.context)
    THEN [inst |-> inst, result |-> ErrResult("InvalidState")]
    ELSE LET ctx == Unwrap(inst.context) IN
         IF engine_ok
         THEN IF IsSome(ctx.suspension)
              THEN [inst |-> [inst EXCEPT !.state = "Suspended",
                                          !.suspension_id = Some(Unwrap(ctx.suspension).id)],
                    result |-> OkResult("Suspended", ctx,
                                        Some(details(Unwrap(ctx.suspension))), None)]
              ELSE [inst |-> [inst EXCEPT !.state = "Idle", !.context = None],
                    result |-> OkResult("Success", ctx, None, None)]
         ELSE [inst |-> [inst EXCEPT !.state = "Idle", !.context = None],
               result |-> ErrorResult("EXECUTION_ERROR")]

(***************************************************************************)
(* State.                                                                  *)
(***************************************************************************)
VARIABLES
    \* --- one WasmInstance driven directly through its API ---
    inst,            \* the WasmInstance
    call,            \* the call whose engine run is in progress: "none", "execute", "resume"
    guest_suspended, \* the guest got Ok from ext_suspend during the run in progress
    last,            \* the last host function the guest called and its HostResult
    ires,            \* Option: what the last execute / resume call returned (None
                     \* while an execute runs; a resume leaves it until it returns)
    wasm_context,    \* the WasmContext the last ExecutionContext was built from
    \* --- shared ---
    next_uuid,       \* number of uuids drawn so far
    \* --- InstancePool and the callers of WasmRuntime ---
    available,       \* InstancePoolInner.available (back of the deque is the tail)
    suspended,       \* InstancePoolInner.suspended: suspension id -> instance
    permits,         \* permits of InstancePoolInner.semaphore
    closed,          \* the semaphore was closed
    shutdown,        \* InstancePoolInner.shutdown
    active_count,    \* InstancePoolInner.active_count
    instances_created, \* InstancePoolInner.instances_created
    pc,              \* per caller: where it is in its WasmRuntime call
    handle,          \* per caller: Option, the PooledInstance it holds
    reused,          \* per caller: its acquire popped a pooled instance (did not create one)
    pending,         \* per caller: Option, the result its execute step produced
    returned         \* Option: the WasmRuntime call that returned last, and its result

VARIABLES
    \* --- the HandlerCompiler and the threads calling it ---
    max_cache_size,  \* HandlerCompiler.max_cache_size
    disk_cache_dir,  \* HandlerCompiler.disk_cache_dir is Some(_)
    cache,           \* the memory cache: cache key -> CacheEntry
    lru,             \* the keys of cache, the least recently accessed first
    cache_size,      \* HandlerCompiler.cache_size
    disk,            \* the files of the disk cache: cache key -> bytecode
    cpc,             \* per thread: where it is inside compile
    job,             \* per thread: the compile in progress
    expect,          \* per thread: what the preceding compile of the same source returned
    prev,            \* Option: the compile that returned last, nothing else having run
    compiled         \* Option: the CompiledHandler returned last

VARIABLES
    \* --- a CapabilityChecker and a CapabilityToken, and what was computed from them ---
    granted,         \* CapabilityChecker.capabilities
    required_str,    \* the required capability string
    checked,         \* Option: what CapabilityChecker::check returned
    token,           \* a CapabilityToken
    repr,            \* Option: what token.to_string_repr() returned
    parsed           \* Option: what CapabilityToken::parse(repr) returned

VARIABLES
    \* --- the locals of the WasmRuntime call a caller is in ---
    called,          \* per caller: the WasmRuntime function called last
    compiled_hit,    \* per caller: the local cache_hit of that call
    again,           \* per caller: the source of that call had been executed before
    executed         \* the sources execute_handler was called with so far

facade_vars == <<called, compiled_hit, again, executed>>

cap_vars == <<granted, required_str, checked, token, repr, parsed>>

VARIABLES
    \* --- a HostFunctions registry and the calls of check_host_call_limit on it ---
    host_context,    \* HostFunctions.context
    host_max,        \* HostFunctions.max_host_calls
    overflow_checks, \* the build checks integer overflow (debug) or not (release)
    host_before,     \* calls of check_host_call_limit made on the context so far
    checks,          \* how many of them were made since the initial state
    host_ret         \* Option: what the last call returned, or that it panicked

host_vars == <<host_context, host_max, overflow_checks, host_before, checks, host_ret>>

cache_vars == <<max_cache_size, disk_cache_dir, cache, lru, cache_size, disk,
                cpc, job, expect, prev, compiled, cap_vars, host_vars>>

inst_vars == <<inst, call, guest_suspended, last, ires, wasm_context>>

pool_vars == <<available, suspended, permits, closed, shutdown, active_count,
               instances_created, pc, handle, reused, pending, returned>>

vars == <<inst_vars, next_uuid, pool_vars, cache_vars, facade_vars>>

Callers == 1..NumCallers

Threads == 1..NumThreads

(***************************************************************************)
(* Inputs.                                                                 *)
(***************************************************************************)
\* keys, event names and component ids the guest uses
GuestNames == {<<"a">>, <<"b">>}

\* the capability lists handed in with a WasmContext
CapSets ==
    { {},
      {Tok("StateWrite", <<"a">>), Tok("EventsEmit", <<"a">>),
       Tok("ViewUpdate", <<"a">>), Tok("Extension", <<"http">>)},
      {Tok("StateWriteAll", <<>>), Tok("EventsEmitAll", <<>>),
       Tok("ViewUpdateAll", <<>>), Tok("ExtensionAll", <<>>)} }

\* the extension registry handed in with a WasmContext
Registry == (<<"http">> :> {"get"})

ExtNames == {<<"http">>, <<"ftp">>}

Methods == {"get", "put"}

ViewCommands ==
    [command_type : {"Focus"}, component_id : {None} \cup {Some(n) : n \in GuestNames}]

\* the log levels the guest uses (1 = info, 3 = error)
LogLevels == {1, 3}

\* the handler sources compiled: their artifacts take 6, 8 and 10 bytes
Sources == {<<"a">>, <<"b", "b">>, <<"c", "c", "c">>}

\* the Strings inside tokens and required strings: plain ones, the empty one,
\* "*", and ones with a ':' in them ("a:b", "a:*")
Scopes == {<<"a">>, <<"b">>, <<"">>, <<"*">>, <<"a", "b">>, <<"a", "*">>}

\* every CapabilityToken over Scopes
Tokens ==
    {Tok(tag, arg) : tag \in ScopedTags, arg \in Scopes}
    \cup {Tok(tag, <<>>) : tag \in WildcardTags}

\* the capability lists of at most two tokens (as sets: check does not depend
\* on order or repetition)
GrantedSets == {{}} \cup {{a, b} : a, b \in Tokens}

\* the required strings the can_* functions of CapabilityChecker build
RequiredStrings == {Fmt(Prefix(tag), scope) : tag \in ScopedTags, scope \in Scopes}

\* RuntimeConfig.max_cache_size_bytes
Budgets == {SmallBudget, Budget}

TotalEffects(ctx) ==
    Len(ctx.state_mutations) + Len(ctx.events) + Len(ctx.view_commands)
    + Len(ctx.log_messages)

NoCall == [fn |-> "none", ret |-> SUCCESS, entry |-> None]

(***************************************************************************)
(* Initial state: a new pool, pre-warmed, and a new instance.              *)
(***************************************************************************)
PoolInit ==
    /\ available = [i \in 1..min_instances |-> new_instance(i)]
    /\ suspended = <<>>
    /\ permits = max_instances
    /\ closed = FALSE
    /\ shutdown = FALSE
    /\ active_count = 0
    /\ instances_created = min_instances
    /\ pc = [p \in Callers |-> "idle"]
    /\ handle = [p \in Callers |-> None]
    /\ reused = [p \in Callers |-> FALSE]
    /\ pending = [p \in Callers |-> None]
    /\ returned = None
    /\ called = [p \in Callers |-> "execute_handler"]
    /\ compiled_hit = [p \in Callers |-> FALSE]
    /\ again = [p \in Callers |-> FALSE]
    /\ executed = {}

InstInit ==
    /\ inst = new_instance(1)
    /\ call = "none"
    /\ guest_suspended = FALSE
    /\ last = NoCall
    /\ ires = None
    /\ wasm_context = [capabilities |-> {}, extension_registry |-> Registry]
    /\ next_uuid = 0

\* HandlerCompiler::new, but for the configuration
CacheNew ==
    /\ cache = <<>>
    /\ lru = <<>>
    /\ cache_size = 0
    /\ disk = <<>>
    /\ cpc = [t \in Threads |-> "idle"]
    /\ job = [t \in Threads |-> None]
    /\ expect = [t \in Threads |-> None]
    /\ prev = None
    /\ compiled = None

\* the compiler of the instance and pool specifications: one configuration
CacheInit == CacheNew /\ max_cache_size = Budget /\ disk_cache_dir = FALSE

\* nothing computed yet from the checker and the token
CapNew == checked = None /\ repr = None /\ parsed = None

\* the checker and the token of the other specifications
CapInit ==
    /\ CapNew
    /\ granted = {}
    /\ required_str = <<"ext", "a">>
    /\ token = Tok("ExtensionAll", <<>>)

\* HostFunctions::new on a context on which `before` calls were made
HostNew(before, max, checked_build) ==
    /\ host_context = [from_wasm_context({}, Registry) EXCEPT !.host_call_count = before]
    /\ host_max = max
    /\ overflow_checks = checked_build
    /\ host_before = before
    /\ checks = 0
    /\ host_ret = None

\* the HostFunctions of the other specifications
HostInit == HostNew(u32(0), u32(max_host_calls), FALSE)

Init == InstInit /\ PoolInit /\ CacheInit /\ CapInit /\ HostInit

(***************************************************************************)
(* A single WasmInstance: its API called in any order, the guest calling   *)
(* host functions while the engine runs.                                   *)
(***************************************************************************)
\* the shared context of the running instance
Ctx == Unwrap(inst.context)

Running == call /= "none" /\ IsSome(inst.context)

\* the guest's host call fn returned r; entry is what the call records when it
\* succeeds (None for a call that records nothing)
HostReturn(fn, entry, r) ==
    /\ inst' = [inst EXCEPT !.context = Some(r.ctx)]
    /\ last' = [fn |-> fn, ret |-> r.ret, entry |-> entry]
    /\ UNCHANGED <<call, ires, wasm_context, pool_vars, cache_vars, facade_vars>>

Inst_execute ==
    /\ call = "none"
    /\ \E caps \in CapSets :
         LET r == execute_begin(inst, caps, Registry) IN
         /\ inst' = r.inst
         /\ call' = IF r.ok THEN "execute" ELSE "none"
         /\ ires' = IF r.ok THEN None ELSE Some(ErrResult("InvalidState"))
         /\ wasm_context' = IF r.ok
                            THEN [capabilities |-> caps, extension_registry |-> Registry]
                            ELSE wasm_context
    /\ guest_suspended' = FALSE
    /\ last' = NoCall
    /\ UNCHANGED <<next_uuid, pool_vars, cache_vars, facade_vars>>

Inst_resume ==
    /\ call = "none"
    /\ LET r == resume_begin(inst) IN
         /\ inst' = r.inst
         /\ call' = IF r.ok THEN "resume" ELSE "none"
         /\ ires' = IF r.ok THEN ires ELSE Some(ErrResult("InvalidState"))
    /\ guest_suspended' = FALSE
    /\ last' = NoCall
    /\ UNCHANGED <<wasm_context, next_uuid, pool_vars, cache_vars, facade_vars>>

Guest_state_set ==
    /\ Running /\ TotalEffects(Ctx) < MaxEffects
    /\ \E k \in GuestNames :
         HostReturn("state_set", Some([key |-> k, value |-> 1, operation |-> "Set"]),
                    state_set(Ctx, k, 1))
    /\ UNCHANGED <<guest_suspended, next_uuid>>

Guest_state_delete ==
    /\ Running /\ TotalEffects(Ctx) < MaxEffects
    /\ \E k \in GuestNames :
         HostReturn("state_delete",
                    Some([key |-> k, value |-> "Null", operation |-> "Delete"]),
                    state_delete(Ctx, k))
    /\ UNCHANGED <<guest_suspended, next_uuid>>

Guest_emit_event ==
    /\ Running /\ TotalEffects(Ctx) < MaxEffects
    /\ \E n \in GuestNames :
         HostReturn("emit_event", Some([name |-> n, payload |-> 1]),
                    emit_event(Ctx, n, 1))
    /\ UNCHANGED <<guest_suspended, next_uuid>>

Guest_view_command ==
    /\ Running /\ TotalEffects(Ctx) < MaxEffects
    /\ \E c \in ViewCommands :
         HostReturn("view_command", Some(c), view_command(Ctx, c))
    /\ UNCHANGED <<guest_suspended, next_uuid>>

Guest_log ==
    /\ Running /\ TotalEffects(Ctx) < MaxEffects
    /\ \E level \in LogLevels :
         HostReturn("log", Some([level |-> LogLevelFrom(level), message |-> "msg"]),
                    log(Ctx, level, "msg"))
    /\ UNCHANGED <<guest_suspended, next_uuid>>

\* the guest's host call passes through HostFunctions::check_host_call_limit
Guest_check_host_call_limit ==
    /\ Running /\ u32_gt(u32(MaxHostCallCount), Ctx.host_call_count)
    /\ HostReturn("check_host_call_limit", None,
                  check_host_call_limit(Ctx, u32(max_host_calls)))
    /\ UNCHANGED <<guest_suspended, next_uuid>>

Guest_ext_suspend ==
    /\ Running /\ next_uuid < MaxUuid
    /\ \E e \in ExtNames, m \in Methods :
         LET r == ext_suspend(Ctx, e, m, <<>>, next_uuid + 1) IN
         /\ HostReturn("ext_suspend", None, r)
         /\ guest_suspended' = (guest_suspended \/ r.ret = SUCCESS)
         /\ next_uuid' = IF r.ret = SUCCESS THEN next_uuid + 1 ELSE next_uuid

\* the engine call of execute / resume returns Ok(_) or Err(e)
Engine_return ==
    /\ Running
    /\ \E engine_ok \in BOOLEAN :
         LET r == IF call = "execute" THEN execute_finish(inst, Ctx, engine_ok)
                  ELSE resume_finish(inst, engine_ok) IN
         /\ inst' = r.inst
         /\ ires' = Some(r.result)
    /\ call' = "none"
    /\ UNCHANGED <<guest_suspended, last, wasm_context, next_uuid, pool_vars, cache_vars, facade_vars>>

\* tokio::time::timeout drops the execute future at its await on the engine
Engine_abort ==
    /\ call = "execute"
    /\ call' = "none"
    /\ UNCHANGED <<inst, ires, guest_suspended, last, wasm_context, next_uuid, pool_vars, cache_vars, facade_vars>>

Inst_reset ==
    /\ call = "none"
    /\ inst' = reset(inst).inst
    /\ UNCHANGED <<call, ires, guest_suspended, last, wasm_context, next_uuid, pool_vars, cache_vars, facade_vars>>

Inst_terminate ==
    /\ call = "none"
    /\ inst' = terminate(inst)
    /\ UNCHANGED <<call, ires, guest_suspended, last, wasm_context, next_uuid, pool_vars, cache_vars, facade_vars>>

NextInst ==
    \/ Inst_execute
    \/ Inst_resume
    \/ Guest_state_set
    \/ Guest_state_delete
    \/ Guest_emit_event
    \/ Guest_view_command
    \/ Guest_log
    \/ Guest_check_host_call_limit
    \/ Guest_ext_suspend
    \/ Engine_return
    \/ Engine_abort
    \/ Inst_reset
    \/ Inst_terminate

SpecInst == Init /\ [][NextInst]_vars

(***************************************************************************)
(* engine/pool.rs : InstancePool, and engine/mod.rs : WasmRuntime.  Every  *)
(* caller runs one WasmRuntime call at a time; a call is cut into steps at *)
(* its accesses to the shared pool.                                        *)
(***************************************************************************)
\* the capability list of the WasmContexts the callers hand in
PoolCaps ==
    {Tok("StateWriteAll", <<>>), Tok("EventsEmitAll", <<>>),
     Tok("ViewUpdateAll", <<>>), Tok("ExtensionAll", <<>>)}

\* a guest run of the pool specification: n calls of state_set, then (suspend)
\* one ext_suspend, uuid being the value Uuid::new_v4() would return.  Yields
\* the context after the run.
RECURSIVE RunGuest(_, _, _, _)
RunGuest(ctx, n, suspend, uuid) ==
    IF n > 0
    THEN RunGuest(state_set(ctx, <<"a">>, n).ctx, n - 1, suspend, uuid)
    ELSE IF suspend THEN ext_suspend(ctx, <<"http">>, "get", <<>>, uuid).ctx ELSE ctx

\* HashMap::insert
MapInsert(map, k, v) == (k :> v) @@ map

\* a lookup that leaves the entry in the map
MapRemove_keeping(map, k) == map

\* HashMap::remove
MapRemove(map, k) == [x \in (DOMAIN map) \ {k} |-> map[x]]

Set(f, p, v) == [f EXCEPT ![p] = v]

\* what a WasmRuntime call of caller p returned
Returned(p, op, r) == Some([caller |-> p, op |-> op, result |-> r])

\* InstancePool::acquire, the shutdown check (entered from execute_handler and
\* execute_compiled_handler, which do the same to the pool)
execute_handler(p) ==
    /\ pc[p] = "idle"
    /\ IF shutdown
       THEN /\ returned' = Returned(p, called[p],
                                      ErrResult("Shutdown(Pool is shut down)"))
            /\ pc' = pc
       ELSE /\ returned' = returned
            /\ pc' = Set(pc, p, "acquire_wait")
    /\ UNCHANGED <<available, suspended, permits, closed, shutdown, active_count,
                   instances_created, handle, reused, pending, next_uuid, inst_vars, cache_vars, facade_vars>>

\* InstancePool::acquire, semaphore.acquire().await
acquire_permit(p) ==
    /\ pc[p] = "acquire_wait"
    /\ IF closed
       THEN /\ returned' = Returned(p, called[p],
                                      ErrResult("Shutdown(Pool semaphore closed)"))
            /\ pc' = Set(pc, p, "idle")
            /\ permits' = permits
       ELSE /\ permits > 0
            /\ permits' = permits - 1
            /\ pc' = Set(pc, p, "acquire_take")
            /\ returned' = returned
    /\ UNCHANGED <<available, suspended, closed, shutdown, active_count,
                   instances_created, handle, reused, pending, next_uuid, inst_vars, cache_vars, facade_vars>>

\* acquire taking the instance at the front of the deque
acquire_take_front(p) ==
    /\ pc[p] = "acquire_take"
    /\ IF Len(available) > 0
       THEN LET r == reset(available[1]) IN
            /\ available' = Tail(available)
            /\ instances_created' = instances_created
            /\ IF r.ok
               THEN /\ handle' = Set(handle, p, Some(r.inst))
                    /\ reused' = Set(reused, p, TRUE)
                    /\ active_count' = active_count + 1
                    /\ pc' = Set(pc, p, "execute")
                    /\ UNCHANGED <<permits, returned>>
               ELSE \* inst.reset()? : the permit is dropped, the instance too
                    /\ permits' = permits + 1
                    /\ returned' = Returned(p, called[p], ErrResult("InvalidState"))
                    /\ pc' = Set(pc, p, "idle")
                    /\ UNCHANGED <<handle, reused, active_count>>
       ELSE /\ handle' = Set(handle, p, Some(new_instance(instances_created + 1)))
            /\ instances_created' = instances_created + 1
            /\ reused' = Set(reused, p, FALSE)
            /\ active_count' = active_count + 1
            /\ pc' = Set(pc, p, "execute")
            /\ UNCHANGED <<available, permits, returned>>
    /\ UNCHANGED <<suspended, closed, shutdown, pending, next_uuid, inst_vars, cache_vars, facade_vars>>

\* InstancePool::acquire, from the pop of the deque to the returned PooledInstance
acquire_take(p) ==
    /\ pc[p] = "acquire_take"
    /\ IF Len(available) > 0
       THEN LET r == reset(available[Len(available)]) IN
            /\ available' = SubSeq(available, 1, Len(available) - 1)
            /\ instances_created' = instances_created
            /\ IF r.ok
               THEN /\ handle' = Set(handle, p, Some(r.inst))
                    /\ reused' = Set(reused, p, TRUE)
                    /\ active_count' = active_count + 1
                    /\ pc' = Set(pc, p, "execute")
                    /\ UNCHANGED <<permits, returned>>
               ELSE \* inst.reset()? : the permit is dropped, the instance too
                    /\ permits' = permits + 1
                    /\ returned' = Returned(p, called[p], ErrResult("InvalidState"))
                    /\ pc' = Set(pc, p, "idle")
                    /\ UNCHANGED <<handle, reused, active_count>>
       ELSE /\ handle' = Set(handle, p, Some(new_instance(instances_created + 1)))
            /\ instances_created' = instances_created + 1
            /\ reused' = Set(reused, p, FALSE)
            /\ active_count' = active_count + 1
            /\ pc' = Set(pc, p, "execute")
            /\ UNCHANGED <<available, permits, returned>>
    /\ UNCHANGED <<suspended, closed, shutdown, pending, next_uuid, inst_vars, cache_vars, facade_vars>>

\* timeout(timeout_duration, instance.execute(&compiled, context)).await
execute(p) ==
    /\ pc[p] = "execute"
    /\ \E n \in 0..MaxScriptLen, suspend \in BOOLEAN, outcome \in {"ok", "err", "timeout"} :
         LET b == execute_begin(Unwrap(handle[p]), PoolCaps, Registry)
             ctx == RunGuest(Unwrap(b.inst.context), n, suspend, next_uuid + 1)
             running == [b.inst EXCEPT !.context = Some(ctx)]
             r == execute_finish(running, ctx, outcome = "ok")
         IN
         /\ suspend => next_uuid < MaxPoolUuid
         /\ outcome = "timeout" => instances_created < MaxCreated
         /\ next_uuid' = IF suspend THEN next_uuid + 1 ELSE next_uuid
         /\ IF ~b.ok
            THEN /\ handle' = handle
                 /\ pending' = Set(pending, p, Some(ErrResult("InvalidState")))
            ELSE IF outcome = "timeout"
            THEN /\ handle' = Set(handle, p, Some(running))
                 /\ pending' = Set(pending, p,
                                    Some(with_cache_hit(ErrorResult("TIMEOUT"), compiled_hit[p])))
            ELSE /\ handle' = Set(handle, p, Some(r.inst))
                 /\ pending' = Set(pending, p, Some(r.result))
    /\ pc' = Set(pc, p, "release")
    /\ UNCHANGED <<available, suspended, permits, closed, shutdown, active_count,
                   instances_created, reused, returned, inst_vars, cache_vars, facade_vars>>

\* release without semaphore.add_permits(1)
release_no_permit(p) ==
    /\ pc[p] = "release"
    /\ active_count' = active_count - 1
    /\ pc' = Set(pc, p, "release_match")
    /\ UNCHANGED <<available, suspended, permits, closed, shutdown, instances_created,
                   handle, reused, pending, returned, next_uuid, inst_vars, cache_vars, facade_vars>>

\* release adding the permit back only for an instance that is not Executing
release_unless_executing(p) ==
    /\ pc[p] = "release"
    /\ active_count' = active_count - 1
    /\ permits' = IF Unwrap(handle[p]).state = "Executing" THEN permits ELSE permits + 1
    /\ pc' = Set(pc, p, "release_match")
    /\ UNCHANGED <<available, suspended, closed, shutdown, instances_created, handle,
                   reused, pending, returned, next_uuid, inst_vars, cache_vars, facade_vars>>

\* InstancePool::release, the counters and semaphore.add_permits(1)
release(p) ==
    /\ pc[p] = "release"
    /\ active_count' = active_count - 1
    /\ permits' = permits + 1
    /\ pc' = Set(pc, p, "release_match")
    /\ UNCHANGED <<available, suspended, closed, shutdown, instances_created, handle,
                   reused, pending, returned, next_uuid, inst_vars, cache_vars, facade_vars>>

\* the match of release with a Suspended instance pushed back as it is
release_match_state_pooled(i, avail, susp) ==
    IF i.state \in {"Idle", "Suspended"}
    THEN [available |-> Append(avail, i), suspended |-> susp]
    ELSE [available |-> avail, suspended |-> susp]

\* the match of release with every instance dropped
release_match_state_dropped(i, avail, susp) ==
    [available |-> avail, suspended |-> susp]

\* the match of release with an Idle instance pushed back without reset()
release_match_state_unreset(i, avail, susp) ==
    CASE i.state = "Idle" -> [available |-> Append(avail, i), suspended |-> susp]
      [] i.state = "Suspended" ->
           IF IsSome(i.suspension_id)
           THEN [available |-> avail,
                 suspended |-> MapInsert(susp, Unwrap(i.suspension_id), i)]
           ELSE [available |-> avail, suspended |-> susp]
      [] i.state = "Executing" -> [available |-> avail, suspended |-> susp]
      [] i.state = "Terminated" -> [available |-> avail, suspended |-> susp]

\* the match of release with an Executing instance pushed back to the deque
release_match_state_requeued(i, avail, susp) ==
    CASE i.state = "Idle" ->
           IF reset(i).ok
           THEN [available |-> Append(avail, reset(i).inst), suspended |-> susp]
           ELSE [available |-> avail, suspended |-> susp]
      [] i.state = "Suspended" ->
           IF IsSome(i.suspension_id)
           THEN [available |-> avail,
                 suspended |-> MapInsert(susp, Unwrap(i.suspension_id), i)]
           ELSE [available |-> avail, suspended |-> susp]
      [] i.state = "Executing" -> [available |-> Append(avail, i), suspended |-> susp]
      [] i.state = "Terminated" -> [available |-> avail, suspended |-> susp]

\* InstancePool::release, the match on the state of the instance:
\* [available, suspended] after it
release_match_state(i, avail, susp) ==
    CASE i.state = "Idle" ->
           IF reset(i).ok
           THEN [available |-> Append(avail, reset(i).inst), suspended |-> susp]
           ELSE [available |-> avail, suspended |-> susp]
      [] i.state = "Suspended" ->
           IF IsSome(i.suspension_id)
           THEN [available |-> avail,
                 suspended |-> MapInsert(susp, Unwrap(i.suspension_id), i)]
           ELSE [available |-> avail, suspended |-> susp]
      [] i.state = "Executing" -> [available |-> avail, suspended |-> susp]
      [] i.state = "Terminated" -> [available |-> avail, suspended |-> susp]

\* InstancePool::release, the match, and the return of execute_handler
release_match(p) ==
    /\ pc[p] = "release_match"
    /\ LET r == release_match_state(Unwrap(handle[p]), available, suspended) IN
         /\ available' = r.available
         /\ suspended' = r.suspended
    /\ handle' = Set(handle, p, None)
    /\ reused' = Set(reused, p, FALSE)
    /\ returned' = Returned(p, called[p], Unwrap(pending[p]))
    /\ pending' = Set(pending, p, None)
    /\ pc' = Set(pc, p, "idle")
    /\ UNCHANGED <<permits, closed, shutdown, active_count, instances_created,
                   next_uuid, inst_vars, cache_vars, facade_vars>>

\* resume_handler counting the instance as active before it looks the id up
resume_handler_counting(p) ==
    /\ pc[p] = "idle"
    /\ active_count' = active_count + 1
    /\ \E sid \in 1..MaxPoolUuid :
         IF sid \in DOMAIN suspended
         THEN /\ suspended' = MapRemove(suspended, sid)
              /\ handle' = Set(handle, p, Some(suspended[sid]))
              /\ pc' = Set(pc, p, "resume")
              /\ returned' = returned
         ELSE /\ returned' = Returned(p, "resume_handler", ErrResult("Suspension"))
              /\ UNCHANGED <<suspended, handle, pc>>
    /\ UNCHANGED <<available, permits, closed, shutdown, instances_created,
                   reused, pending, next_uuid, inst_vars, cache_vars, facade_vars>>

\* WasmRuntime::resume_handler, pool.get_suspended(suspension_id)
resume_handler(p) ==
    /\ pc[p] = "idle"
    /\ \E sid \in 1..MaxPoolUuid :
         IF sid \in DOMAIN suspended
         THEN /\ suspended' = MapRemove(suspended, sid)
              /\ active_count' = active_count + 1
              /\ handle' = Set(handle, p, Some(suspended[sid]))
              /\ pc' = Set(pc, p, "resume")
              /\ returned' = returned
         ELSE /\ returned' = Returned(p, "resume_handler", ErrResult("Suspension"))
              /\ UNCHANGED <<suspended, active_count, handle, pc>>
    /\ UNCHANGED <<available, permits, closed, shutdown, instances_created,
                   reused, pending, next_uuid, inst_vars, cache_vars, facade_vars>>

\* WasmRuntime::resume_handler, instance.resume(result).await? and the return,
\* at which the PooledInstance goes out of scope
resume(p) ==
    /\ pc[p] = "resume"
    /\ \E n \in 0..MaxScriptLen, suspend \in BOOLEAN, engine_ok \in BOOLEAN :
         LET b == resume_begin(Unwrap(handle[p]))
             ctx == RunGuest(Unwrap(b.inst.context), n, suspend, next_uuid + 1)
             running == [b.inst EXCEPT !.context = Some(ctx)]
             r == resume_finish(running, engine_ok)
         IN
         /\ suspend => next_uuid < MaxPoolUuid
         /\ IsSome(b.inst.context) =>
                Len(Unwrap(b.inst.context).state_mutations) + n <= MaxScriptLen
         /\ next_uuid' = IF suspend THEN next_uuid + 1 ELSE next_uuid
         /\ returned' = Returned(p, "resume_handler",
                                 IF b.ok THEN r.result ELSE ErrResult("InvalidState"))
    /\ handle' = Set(handle, p, None)
    /\ pc' = Set(pc, p, "idle")
    /\ UNCHANGED <<available, suspended, permits, closed, shutdown, active_count,
                   instances_created, reused, pending, inst_vars, cache_vars, facade_vars>>

\* the values of max_age_secs tried
MaxAges == {0, 1}

\* InstancePool::cleanup_stale, suspended.retain(|id, _instance| true): the
\* closure looks neither at max_age_secs nor at the instance
cleanup_stale_retain(map, max_age_secs) ==
    [id \in {k \in DOMAIN map : TRUE} |-> map[id]]

\* InstancePool::cleanup_stale
cleanup_stale(p) ==
    /\ pc[p] = "idle"
    /\ \E max_age_secs \in MaxAges :
         suspended' = cleanup_stale_retain(suspended, max_age_secs)
    /\ UNCHANGED <<available, permits, closed, shutdown, active_count,
                   instances_created, pc, handle, reused, pending, returned,
                   next_uuid, inst_vars, cache_vars, facade_vars>>

\* InstancePool::shutdown, *self.inner.shutdown.write() = true
shutdown_flag(p) ==
    /\ pc[p] = "idle"
    /\ shutdown' = TRUE
    /\ pc' = Set(pc, p, "shutdown_close")
    /\ UNCHANGED <<available, suspended, permits, closed, active_count,
                   instances_created, handle, reused, pending, returned,
                   next_uuid, inst_vars, cache_vars, facade_vars>>

\* shutdown leaving the semaphore open
shutdown_close_open(p) ==
    /\ pc[p] = "shutdown_close"
    /\ pc' = Set(pc, p, "shutdown_drain")
    /\ UNCHANGED <<available, suspended, permits, closed, shutdown, active_count,
                   instances_created, handle, reused, pending, returned,
                   next_uuid, inst_vars, cache_vars, facade_vars>>

\* InstancePool::shutdown, self.inner.semaphore.close()
shutdown_close(p) ==
    /\ pc[p] = "shutdown_close"
    /\ closed' = TRUE
    /\ pc' = Set(pc, p, "shutdown_drain")
    /\ UNCHANGED <<available, suspended, permits, shutdown, active_count,
                   instances_created, handle, reused, pending, returned,
                   next_uuid, inst_vars, cache_vars, facade_vars>>

\* InstancePool::shutdown, draining and terminating the available and the
\* suspended instances, and the return
shutdown_drain(p) ==
    /\ pc[p] = "shutdown_drain"
    /\ available' = <<>>
    /\ suspended' = <<>>
    /\ pc' = Set(pc, p, "idle")
    /\ returned' = Returned(p, "shutdown", UnitResult)
    /\ UNCHANGED <<permits, closed, shutdown, active_count, instances_created,
                   handle, reused, pending, next_uuid, inst_vars, cache_vars, facade_vars>>

Next ==
    \E p \in Callers :
        \/ execute_handler(p)
        \/ acquire_permit(p)
        \/ acquire_take(p)
        \/ execute(p)
        \/ release(p)
        \/ release_match(p)
        \/ resume_handler(p)
        \/ resume(p)
        \/ cleanup_stale(p)
        \/ shutdown_flag(p)
        \/ shutdown_close(p)
        \/ shutdown_drain(p)

Spec == Init /\ [][Next]_vars

(***************************************************************************)
(* A pool that is not shut down, its callers scheduled fairly: a caller    *)
(* inside a call goes on, and the semaphore serves its waiters in turn.    *)
(***************************************************************************)
NextLive ==
    \E p \in Callers :
        \/ execute_handler(p)
        \/ acquire_permit(p)
        \/ acquire_take(p)
        \/ execute(p)
        \/ release(p)
        \/ release_match(p)
        \/ resume_handler(p)
        \/ resume(p)

Fairness ==
    \A p \in Callers :
        /\ SF_vars(acquire_permit(p))
        /\ WF_vars(acquire_take(p))
        /\ WF_vars(execute(p))
        /\ WF_vars(release(p))
        /\ WF_vars(release_match(p))
        /\ WF_vars(resume(p))

SpecLive == Init /\ [][NextLive]_vars /\ Fairness

(***************************************************************************)
(* engine/compiler.rs: the HandlerCompiler, its memory cache and its disk  *)
(* cache, called by several threads.                                       *)
(***************************************************************************)
\* HandlerCompiler::wrap_handler: the source inside the runtime wrapper
wrap_handler(source) == <<"(function(){">> \o source \o <<"})">>

\* HandlerCompiler::compile_source: the wrapped source serves as bytecode, the
\* source map holds the wrapped source
compile_source(source) ==
    [bytecode |-> wrap_handler(source),
     source_map |-> Some([source |-> wrap_handler(source)])]

\* CacheEntry::new
CacheEntry_new(bytecode, source_map) ==
    [bytecode |-> bytecode,
     source_map |-> source_map,
     size |-> Len(bytecode)
              + (IF IsSome(source_map) THEN Len(Unwrap(source_map).source) ELSE 0)]

\* HandlerCompiler::compute_cache_key: a digest of the source and ":v1",
\* taken to be free of collisions
compute_cache_key(source) == source \o <<":v1">>

\* sequence l without key k
Without(l, k) == SelectSeq(l, LAMBDA x : x /= k)

\* a memory cache lookup that finds nothing
get_from_cache_missing(c, l, key) == [found |-> FALSE, entry |-> None, lru |-> l]

\* HandlerCompiler::get_from_cache: [found, entry, lru], the entry found
\* becoming the most recently accessed
get_from_cache(c, l, key) ==
    IF key \in DOMAIN c
    THEN [found |-> TRUE, entry |-> Some(c[key]), lru |-> Append(Without(l, key), key)]
    ELSE [found |-> FALSE, entry |-> None, lru |-> l]

\* HandlerCompiler::evict_lru: [evicted, cache, lru, cache_size]
evict_lru(c, l, size) ==
    IF DOMAIN c = {}
    THEN [evicted |-> FALSE, cache |-> c, lru |-> l, cache_size |-> size]
    ELSE [evicted |-> TRUE,
          cache |-> MapRemove(c, Head(l)),
          lru |-> Tail(l),
          cache_size |-> size - c[Head(l)].size]

\* the insertion of put_to_cache without the fetch_sub for a replaced entry
put_to_cache_insert_adding(c, l, size, key, entry) ==
    [cache |-> MapInsert(c, key, entry),
     lru |-> Append(Without(l, key), key),
     cache_size |-> size + entry.size]

\* the insertion of put_to_cache leaving out an entry that does not fit
put_to_cache_insert_if_fits(c, l, size, key, entry) ==
    IF size + entry.size > max_cache_size
    THEN [cache |-> c, lru |-> l, cache_size |-> size]
    ELSE [cache |-> MapInsert(c, key, entry),
          lru |-> Append(Without(l, key), key),
          cache_size |-> (IF key \in DOMAIN c THEN size - c[key].size ELSE size)
                         + entry.size]

\* HandlerCompiler::put_to_cache after its eviction loop: cache.insert and the
\* update of cache_size, [cache, lru, cache_size]
put_to_cache_insert(c, l, size, key, entry) ==
    [cache |-> MapInsert(c, key, entry),
     lru |-> Append(Without(l, key), key),
     cache_size |-> (IF key \in DOMAIN c THEN size - c[key].size ELSE size)
                    + entry.size]

\* the CompiledHandler thread t got back from compile(source)
Compiled(t, source, bytecode, cache_hit) ==
    Some([thread |-> t, source |-> source, bytecode |-> bytecode, cache_hit |-> cache_hit])

\* every thread but t is outside the compiler
OthersIdle(t) == \A u \in Threads \ {t} : cpc[u] = "idle"

\* a call enters the compiler: no compile in progress runs alone any more
Disturbed(j) == [u \in Threads |-> IF IsSome(j[u])
                                   THEN Some([Unwrap(j[u]) EXCEPT !.alone = FALSE])
                                   ELSE None]

\* a clear_cache in progress holds the write lock of the cache, from its first
\* statement to its return
CacheLocked == \E u \in Threads : cpc[u] \in {"clear_disk", "clear_return"}

\* HandlerCompiler::compile, the memory cache lookup; a hit returns
compile(t) ==
    /\ cpc[t] = "idle" /\ ~CacheLocked
    /\ \E source \in Sources :
         LET key == compute_cache_key(source)
             g == get_from_cache(cache, lru, key)
         IN
         /\ lru' = g.lru
         /\ IF g.found
            THEN /\ compiled' = Compiled(t, source, Unwrap(g.entry).bytecode, TRUE)
                 /\ prev' = IF OthersIdle(t)
                            THEN Some([source |-> source,
                                       bytecode |-> Unwrap(g.entry).bytecode])
                            ELSE None
                 /\ job' = Disturbed(job)
                 /\ UNCHANGED <<cpc, expect>>
            ELSE /\ cpc' = [cpc EXCEPT ![t] = "disk"]
                 /\ job' = [Disturbed(job) EXCEPT
                              ![t] = Some([source |-> source, entry |-> None,
                                           cache_hit |-> FALSE,
                                           alone |-> OthersIdle(t)])]
                 /\ expect' = [expect EXCEPT
                                 ![t] = IF IsSome(prev) /\ Unwrap(prev).source = source
                                        THEN prev ELSE None]
                 /\ prev' = None
                 /\ compiled' = compiled
    /\ UNCHANGED <<max_cache_size, disk_cache_dir, cache, cache_size, disk,
                   inst_vars, next_uuid, pool_vars, cap_vars, host_vars, facade_vars>>

\* HandlerCompiler::compile, the disk cache lookup and, on a miss,
\* compile_source
get_from_disk_cache(t) ==
    /\ cpc[t] = "disk"
    /\ LET j == Unwrap(job[t])
           key == compute_cache_key(j.source)
           on_disk == disk_cache_dir /\ key \in DOMAIN disk
           c == compile_source(j.source)
           entry == IF on_disk THEN CacheEntry_new(disk[key], None)
                    ELSE CacheEntry_new(c.bytecode, c.source_map)
       IN job' = [job EXCEPT ![t] = Some([j EXCEPT !.entry = Some(entry),
                                                   !.cache_hit = on_disk])]
    /\ cpc' = [cpc EXCEPT ![t] = "put_check"]
    /\ UNCHANGED <<max_cache_size, disk_cache_dir, cache, lru, cache_size, disk,
                   expect, prev, compiled, inst_vars, next_uuid, pool_vars, cap_vars, host_vars, facade_vars>>

\* HandlerCompiler::put_to_cache, the condition of the eviction loop
put_to_cache(t) ==
    /\ cpc[t] = "put_check"
    /\ cpc' = [cpc EXCEPT ![t] =
                 IF cache_size + Unwrap(Unwrap(job[t]).entry).size > max_cache_size
                 THEN "evict" ELSE "insert"]
    /\ UNCHANGED <<max_cache_size, disk_cache_dir, cache, lru, cache_size, disk,
                   job, expect, prev, compiled, inst_vars, next_uuid, pool_vars, cap_vars, host_vars, facade_vars>>

\* HandlerCompiler::put_to_cache, the body of the eviction loop
put_to_cache_evict(t) ==
    /\ cpc[t] = "evict" /\ ~CacheLocked
    /\ LET e == evict_lru(cache, lru, cache_size) IN
         /\ cache' = e.cache
         /\ lru' = e.lru
         /\ cache_size' = e.cache_size
         /\ cpc' = [cpc EXCEPT ![t] = IF e.evicted THEN "put_check" ELSE "insert"]
    /\ UNCHANGED <<max_cache_size, disk_cache_dir, disk, job, expect, prev,
                   compiled, inst_vars, next_uuid, pool_vars, cap_vars, host_vars, facade_vars>>

\* HandlerCompiler::put_to_cache, the insertion under the write lock
put_to_cache_locked(t) ==
    /\ cpc[t] = "insert" /\ ~CacheLocked
    /\ LET j == Unwrap(job[t])
           r == put_to_cache_insert(cache, lru, cache_size,
                                    compute_cache_key(j.source), Unwrap(j.entry))
       IN
         /\ cache' = r.cache
         /\ lru' = r.lru
         /\ cache_size' = r.cache_size
    /\ cpc' = [cpc EXCEPT ![t] = "finish"]
    /\ UNCHANGED <<max_cache_size, disk_cache_dir, disk, job, expect, prev,
                   compiled, inst_vars, next_uuid, pool_vars, cap_vars, host_vars, facade_vars>>

\* HandlerCompiler::compile, put_to_disk_cache of a fresh compilation, and the
\* return
put_to_disk_cache(t) ==
    /\ cpc[t] = "finish"
    /\ LET j == Unwrap(job[t])
           bytecode == Unwrap(j.entry).bytecode
       IN
         /\ disk' = IF disk_cache_dir /\ ~j.cache_hit
                    THEN MapInsert(disk, compute_cache_key(j.source), bytecode)
                    ELSE disk
         /\ compiled' = Compiled(t, j.source, bytecode, j.cache_hit)
         /\ prev' = IF j.alone /\ OthersIdle(t)
                    THEN Some([source |-> j.source, bytecode |-> bytecode])
                    ELSE None
    /\ job' = [job EXCEPT ![t] = None]
    /\ expect' = [expect EXCEPT ![t] = None]
    /\ cpc' = [cpc EXCEPT ![t] = "idle"]
    /\ UNCHANGED <<max_cache_size, disk_cache_dir, cache, lru, cache_size,
                   inst_vars, next_uuid, pool_vars, cap_vars, host_vars, facade_vars>>

\* HandlerCompiler::clear_cache: the write lock taken, cache.clear() and
\* cache_size.store(0)
clear_cache(t) ==
    /\ cpc[t] = "idle" /\ ~CacheLocked
    /\ cache' = <<>>
    /\ lru' = <<>>
    /\ cache_size' = 0
    /\ prev' = None
    /\ expect' = [u \in Threads |-> None]
    /\ job' = Disturbed(job)
    /\ cpc' = [cpc EXCEPT ![t] = "clear_disk"]
    /\ UNCHANGED <<max_cache_size, disk_cache_dir, disk, compiled,
                   inst_vars, next_uuid, pool_vars, cap_vars, host_vars, facade_vars>>

\* HandlerCompiler::clear_cache, the files read_dir lists are removed
clear_cache_disk(t) ==
    /\ cpc[t] = "clear_disk"
    /\ disk' = <<>>
    /\ cpc' = [cpc EXCEPT ![t] = "clear_return"]
    /\ UNCHANGED <<max_cache_size, disk_cache_dir, cache, lru, cache_size,
                   job, expect, prev, compiled,
                   inst_vars, next_uuid, pool_vars, cap_vars, host_vars, facade_vars>>

\* HandlerCompiler::clear_cache returns: the write lock is dropped
clear_cache_return(t) ==
    /\ cpc[t] = "clear_return"
    /\ cpc' = [cpc EXCEPT ![t] = "idle"]
    /\ UNCHANGED <<max_cache_size, disk_cache_dir, cache, lru, cache_size, disk,
                   job, expect, prev, compiled,
                   inst_vars, next_uuid, pool_vars, cap_vars, host_vars, facade_vars>>

NextCache ==
    \E t \in Threads :
        \/ compile(t)
        \/ get_from_disk_cache(t)
        \/ put_to_cache(t)
        \/ put_to_cache_evict(t)
        \/ put_to_cache_locked(t)
        \/ put_to_disk_cache(t)
        \/ clear_cache(t)
        \/ clear_cache_disk(t)
        \/ clear_cache_return(t)

\* a compiler of any of the budgets, with and without a disk cache
InitCache ==
    /\ InstInit /\ PoolInit /\ CacheNew /\ CapInit /\ HostInit
    /\ max_cache_size \in Budgets
    /\ disk_cache_dir \in BOOLEAN

SpecCache == InitCache /\ [][NextCache]_vars

(***************************************************************************)
(* capability.rs: the check of a capability list against a required string *)
(***************************************************************************)
CapabilityChecker_check ==
    /\ checked = None
    /\ checked' = Some(check(granted, required_str))
    /\ UNCHANGED <<granted, required_str, token, repr, parsed,
                   max_cache_size, disk_cache_dir, cache, lru, cache_size, disk,
                   cpc, job, expect, prev, compiled, host_vars, inst_vars, next_uuid, pool_vars,
                   facade_vars>>

NextCheck == CapabilityChecker_check

InitCheck ==
    /\ InstInit /\ PoolInit /\ CacheInit /\ CapNew /\ HostInit
    /\ granted \in GrantedSets
    /\ required_str \in RequiredStrings
    /\ token = Tok("ExtensionAll", <<>>)

SpecCheck == InitCheck /\ [][NextCheck]_vars

(***************************************************************************)
(* capability.rs: a token written as a string and parsed back              *)
(***************************************************************************)
Token_to_string_repr ==
    /\ repr = None
    /\ repr' = Some(to_string_repr(token))
    /\ UNCHANGED <<granted, required_str, checked, token, parsed,
                   max_cache_size, disk_cache_dir, cache, lru, cache_size, disk,
                   cpc, job, expect, prev, compiled, host_vars, inst_vars, next_uuid, pool_vars,
                   facade_vars>>

Token_parse ==
    /\ IsSome(repr) /\ parsed = None
    /\ parsed' = Some(parse(Unwrap(repr)))
    /\ UNCHANGED <<granted, required_str, checked, token, repr,
                   max_cache_size, disk_cache_dir, cache, lru, cache_size, disk,
                   cpc, job, expect, prev, compiled, host_vars, inst_vars, next_uuid, pool_vars,
                   facade_vars>>

NextToken == Token_to_string_repr \/ Token_parse

InitToken ==
    /\ InstInit /\ PoolInit /\ CacheInit /\ CapNew /\ HostInit
    /\ granted = {}
    /\ required_str = <<"ext", "a">>
    /\ token \in Tokens

SpecToken == InitToken /\ [][NextToken]_vars

(***************************************************************************)
(* host_functions/mod.rs: check_host_call_limit called again and again on  *)
(* one HostFunctions, for small limits and for u32::MAX, on a fresh        *)
(* context and on one whose counter is four calls from the end of u32.     *)
(***************************************************************************)
\* the values of max_host_calls tried
Limits == {u32(0), u32(1), u32(2), u32_MAX}

\* the calls made on the context before the first step: none, or 2^32 - 4
StartCounts == {u32(0), [hi |-> U16 - 1, lo |-> U16 - 4]}

HostFunctions_check_host_call_limit ==
    /\ checks < MaxChecks
    /\ checks' = checks + 1
    /\ IF overflow_checks /\ host_context.host_call_count = u32_MAX
       THEN \* host_call_count += 1 panics: attempt to add with overflow
            /\ host_ret' = Some([panicked |-> TRUE, ret |-> SUCCESS])
            /\ host_context' = host_context
       ELSE LET r == check_host_call_limit(host_context, host_max) IN
            /\ host_ret' = Some([panicked |-> FALSE, ret |-> r.ret])
            /\ host_context' = r.ctx
    /\ UNCHANGED <<host_max, overflow_checks, host_before,
                   inst_vars, next_uuid, pool_vars, facade_vars,
                   max_cache_size, disk_cache_dir, cache, lru, cache_size, disk,
                   cpc, job, expect, prev, compiled, cap_vars>>

NextLimit == HostFunctions_check_host_call_limit

InitLimit ==
    /\ InstInit /\ PoolInit /\ CacheInit /\ CapInit
    /\ \E before \in StartCounts, max \in Limits, checked_build \in BOOLEAN :
         HostNew(before, max, checked_build)

SpecLimit == InitLimit /\ [][NextLimit]_vars

(***************************************************************************)
(* engine/mod.rs: WasmRuntime used by one caller, its calls from the       *)
(* compilation of the handler to the returned result.                      *)
(***************************************************************************)
RECURSIVE evict_loop(_, _, _, _)
\* HandlerCompiler::put_to_cache, its eviction loop run by one thread alone:
\* [cache, lru, cache_size]
evict_loop(c, l, size, entry_size) ==
    IF size + entry_size > max_cache_size
    THEN LET e == evict_lru(c, l, size) IN
         IF e.evicted
         THEN evict_loop(e.cache, e.lru, e.cache_size, entry_size)
         ELSE [cache |-> c, lru |-> l, cache_size |-> size]
    ELSE [cache |-> c, lru |-> l, cache_size |-> size]

\* HandlerCompiler::compile run by one thread alone:
\* [cache, lru, cache_size, disk, bytecode, cache_hit]
compile_alone(source) ==
    LET key == compute_cache_key(source)
        g == get_from_cache(cache, lru, key)
        on_disk == disk_cache_dir /\ key \in DOMAIN disk
        c == compile_source(source)
        entry == IF on_disk THEN CacheEntry_new(disk[key], None)
                 ELSE CacheEntry_new(c.bytecode, c.source_map)
        e == evict_loop(cache, lru, cache_size, entry.size)
        r == put_to_cache_insert(e.cache, e.lru, e.cache_size, key, entry)
    IN IF g.found
       THEN [cache |-> cache, lru |-> g.lru, cache_size |-> cache_size, disk |-> disk,
             bytecode |-> Unwrap(g.entry).bytecode, cache_hit |-> TRUE]
       ELSE [cache |-> r.cache, lru |-> r.lru, cache_size |-> r.cache_size,
             disk |-> IF disk_cache_dir /\ ~on_disk
                      THEN MapInsert(disk, key, entry.bytecode) ELSE disk,
             bytecode |-> entry.bytecode, cache_hit |-> on_disk]

\* InstancePool::acquire, the shutdown check, for a call of function fn
acquire(p, fn) ==
    /\ pc[p] = "idle"
    /\ IF shutdown
       THEN /\ returned' = Returned(p, fn, ErrResult("Shutdown(Pool is shut down)"))
            /\ pc' = pc
       ELSE /\ returned' = returned
            /\ pc' = Set(pc, p, "acquire_wait")
    /\ UNCHANGED <<available, suspended, permits, closed, shutdown, active_count,
                   instances_created, handle, reused, pending, next_uuid, inst_vars>>

\* WasmRuntime::execute_handler, from compiler.compile(handler_code) to the
\* shutdown check of pool.acquire()
WasmRuntime_execute_handler(p) ==
    /\ \E handler_code \in Sources :
         LET c == compile_alone(handler_code) IN
         /\ cache' = c.cache
         /\ lru' = c.lru
         /\ cache_size' = c.cache_size
         /\ disk' = c.disk
         /\ compiled' = Compiled(p, handler_code, c.bytecode, c.cache_hit)
         /\ compiled_hit' = Set(compiled_hit, p, c.cache_hit)
         /\ again' = Set(again, p, handler_code \in executed)
         /\ executed' = executed \cup {handler_code}
    /\ called' = Set(called, p, "execute_handler")
    /\ acquire(p, "execute_handler")
    /\ UNCHANGED <<max_cache_size, disk_cache_dir, cpc, job, expect, prev, cap_vars,
                   host_vars>>

\* WasmRuntime::execute_compiled_handler, up to the shutdown check of
\* pool.acquire(): the CompiledHandler is built with cache_hit: true
WasmRuntime_execute_compiled_handler(p) ==
    /\ compiled_hit' = Set(compiled_hit, p, TRUE)
    /\ again' = Set(again, p, FALSE)
    /\ called' = Set(called, p, "execute_compiled_handler")
    /\ acquire(p, "execute_compiled_handler")
    /\ UNCHANGED <<executed, cache_vars>>

\* the one caller of the runtime
FacadeCaller == 1

NextFacade ==
    \/ WasmRuntime_execute_handler(FacadeCaller)
    \/ WasmRuntime_execute_compiled_handler(FacadeCaller)
    \/ acquire_permit(FacadeCaller)
    \/ acquire_take(FacadeCaller)
    \/ execute(FacadeCaller)
    \/ release(FacadeCaller)
    \/ release_match(FacadeCaller)
    \/ resume_handler(FacadeCaller)
    \/ resume(FacadeCaller)

SpecFacade == Init /\ [][NextFacade]_vars

(***************************************************************************)
(* Properties of the pool.                                                 *)
(***************************************************************************)
\* no WasmRuntime call is in progress
Quiescent == \A p \in Callers : pc[p] = "idle"

\* the callers holding a PooledInstance they have not yet passed to release
CheckedOut == {p \in Callers : pc[p] \in {"execute", "release", "resume"}}

\* the instances that exist: stored in the pool or held by a caller
Live ==
    {available[k] : k \in 1..Len(available)}
    \cup {suspended[k] : k \in DOMAIN suspended}
    \cup {Unwrap(handle[p]) : p \in {q \in Callers : IsSome(handle[q])}}

\* the keys of the suspended map under which instance i is stored
KeysOf(i) == {k \in DOMAIN suspended : suspended[k].id = i.id}

\* C1: whenever no call is in progress, every instance whose state is
\* Suspended is stored in the suspended map under exactly one key, and that
\* key is its suspension_id.
C1_SuspendedInMap ==
    Quiescent =>
        \A i \in Live :
            i.state = "Suspended" =>
                /\ Cardinality(KeysOf(i)) = 1
                /\ \A k \in KeysOf(i) : suspended[k] = i /\ i.suspension_id = Some(k)

C1_Witness ==
    /\ Quiescent
    /\ \E k \in DOMAIN suspended : suspended[k].state = "Suspended"
    /\ Len(available) > 0

\* C2: the number of handles checked out at the same time never exceeds
\* max_instances, and the semaphore never holds more than max_instances permits.
C2_CheckedOutBounded ==
    /\ Cardinality(CheckedOut) <= max_instances
    /\ permits <= max_instances

\* C3: the checked-out instances and the instances in the suspended map
\* together never exceed max_instances.
C3_SuspendedKeepsSlot ==
    Cardinality(CheckedOut) + Cardinality(DOMAIN suspended) <= max_instances

\* C4: active_count equals the number of outstanding checkouts, and is 0
\* when every call has returned.
C4_ActiveCount ==
    /\ active_count = Cardinality(CheckedOut)
    /\ Quiescent => active_count = 0

\* what the acquire / release pair of caller p adds to the available deque,
\* seen at the step that ends its release: the push of release less the pop
\* of acquire
PairNet(p) == (Len(available') - Len(available)) - (IF reused[p] THEN 1 ELSE 0)

\* the steps of caller p that change active_count within its acquire / release pair
PairActive(p) ==
    /\ (pc[p] = "acquire_take" /\ pc'[p] = "execute") => active_count' = active_count + 1
    /\ (pc[p] = "release" /\ pc'[p] = "release_match") => active_count' = active_count - 1
    /\ (pc[p] \in {"execute", "release_match"} /\ pc'[p] /= pc[p]) =>
           active_count' = active_count

\* C5 as stated: for every acquire followed by release of the same handle,
\* whatever the state of the instance at release, the pair changes
\* active_count by zero and the number of available instances by no less
\* than zero.
C5_NetNonNegative ==
    [][\A p \in Callers :
         /\ PairActive(p)
         /\ (pc[p] = "release_match" /\ pc'[p] = "idle") => PairNet(p) >= 0]_vars

\* C5 amended: the pair changes active_count by zero; it changes the number
\* of available instances by no less than zero when the instance is Idle at
\* release, and by no less than -1 otherwise.
C5_NetNonNegativeIfIdle ==
    [][\A p \in Callers :
         /\ PairActive(p)
         /\ (pc[p] = "release_match" /\ pc'[p] = "idle") =>
                PairNet(p) >= (IF Unwrap(handle[p]).state = "Idle" THEN 0 ELSE -1)]_vars

C5_Witness ==
    \E p \in Callers :
        /\ pc[p] = "release_match"
        /\ reused[p]
        /\ Unwrap(handle[p]).state = "Idle"
        /\ active_count = 0

\* a shutdown call has run past the closing of the semaphore
ShutdownRan == shutdown /\ \A q \in Callers : pc[q] /= "shutdown_close"

\* C6: once shutdown has set its flag no acquire that starts gets past the
\* shutdown check, and once shutdown has run an acquire waiting for a permit
\* gets none: it returns the Shutdown error.
C6_AcquireFailsAfterShutdown ==
    [][\A p \in Callers :
         /\ shutdown => ~(pc[p] = "idle" /\ pc'[p] = "acquire_wait")
         /\ (ShutdownRan /\ pc[p] = "acquire_wait" /\ pc'[p] /= "acquire_wait") =>
                /\ pc'[p] = "idle"
                /\ handle'[p] = None
                /\ returned' = Returned(p, "execute_handler",
                                        ErrResult("Shutdown(Pool semaphore closed)"))]_vars

C6_Witness ==
    /\ ShutdownRan
    /\ permits > 0
    /\ \E p \in Callers :
         returned = Returned(p, "execute_handler",
                             ErrResult("Shutdown(Pool semaphore closed)"))

\* C7: on a pool that is not shut down, whose callers release what they
\* obtain, every acquire waiting for a permit eventually returns an instance.
C7_AcquireReturns ==
    \A p \in Callers : (pc[p] = "acquire_wait") ~> (pc[p] = "execute")

C7_Witness ==
    /\ \E p \in Callers : pc[p] = "execute" /\ IsSome(handle[p])
    /\ returned /= None
    /\ Unwrap(returned).result = ErrorResult("TIMEOUT")
    /\ DOMAIN suspended /= {}
    /\ ~shutdown

(***************************************************************************)
(* Properties of the single instance.                                      *)
(***************************************************************************)
\* the edges of the instance state machine (section 4.4)
Edges ==
    {<<"Idle", "Executing">>, <<"Executing", "Idle">>, <<"Executing", "Suspended">>,
     <<"Suspended", "Executing">>}
    \cup {<<s, "Terminated">> : s \in InstanceState}

\* C8 as stated: whatever of execute, resume, reset and terminate is called, the
\* state of the instance changes only along an edge of section 4.4.
C8_OnlyEdges == [][inst'.state /= inst.state => <<inst.state, inst'.state>> \in Edges]_vars

\* C8 amended: the state changes only along an edge of section 4.4 or, by reset,
\* from Suspended to Idle.
C8_EdgesOrReset ==
    [][inst'.state /= inst.state =>
          \/ <<inst.state, inst'.state>> \in Edges
          \/ /\ call = "none" /\ call' = "none"
             /\ <<inst.state, inst'.state>> = <<"Suspended", "Idle">>
             /\ inst'.context = None /\ inst'.suspension_id = None]_vars

\* reset has moved a Suspended instance to Idle
C8_Witness ==
    /\ inst.state = "Idle" /\ call = "none"
    /\ IsSome(ires) /\ Unwrap(ires).status = "Suspended"
    /\ inst.context = None

\* C9: when resume is called on a Suspended instance and the resumed guest run
\* returns without calling ext_suspend again, resume returns status Success and
\* leaves the instance Idle (Suspended is returned only after a new ext_suspend).
C9_ResumeConsumes ==
    [][(call = "resume" /\ call' = "none" /\ ~guest_suspended
        /\ Unwrap(ires').status /= "Error")
       => (Unwrap(ires').status = "Success" /\ inst'.state = "Idle")]_vars

\* the capability check of a host function passes for `required`
CheckPasses(caps, required, wildcard) ==
    \/ \E c \in caps : matches(c, required)
    \/ \E c \in caps : matches(c, wildcard)

\* every effect of the lists passes the capability check of the call that records it
EffectsChecked(caps, r) ==
    /\ \A i \in 1..Len(r.state_mutations) :
         CheckPasses(caps, Fmt(<<"state", "write">>, r.state_mutations[i].key),
                     <<"state", "write", "*">>)
    /\ \A i \in 1..Len(r.events) :
         CheckPasses(caps, Fmt(<<"events", "emit">>, r.events[i].name),
                     <<"events", "emit", "*">>)
    /\ \A i \in 1..Len(r.view_commands) :
         CheckPasses(caps, view_required(r.view_commands[i]), <<"view", "update", "*">>)

EffectLists(ctx) == <<ctx.state_mutations, ctx.events, ctx.view_commands>>

C10_Recorded ==
    /\ IsSome(inst.context) => EffectsChecked(Ctx.capabilities, Ctx)
    /\ IsSome(ires) => EffectsChecked(wasm_context.capabilities, Unwrap(ires))

C10_Denied ==
    (Running /\ Running' /\ last'.ret = PERMISSION_DENIED
     /\ last'.fn \in {"state_set", "state_delete", "emit_event", "view_command"})
    => EffectLists(Unwrap(inst'.context)) = EffectLists(Ctx)

\* C10: every mutation, event and view command of a context or a result was
\* recorded by a host call whose capability check passed, and a state_set,
\* state_delete, emit_event or view command call that returns PermissionDenied
\* leaves the three lists unchanged.
C10_EffectsPassedCheck == []C10_Recorded /\ [][C10_Denied]_vars

\* a result carries a recorded mutation, and the guest's last call was denied
C10_Witness ==
    /\ IsSome(ires) /\ Len(Unwrap(ires).state_mutations) > 0
    /\ last.ret = PERMISSION_DENIED /\ last.fn = "emit_event"

\* the four lists of a context
AllLists(ctx) == <<ctx.state_mutations, ctx.events, ctx.view_commands, ctx.log_messages>>

\* the lists of context c with entry e appended to list number n
Appended(c, n, e) == [AllLists(c) EXCEPT ![n] = Append(@, e)]

\* the list a successful call of host function fn appends to (0: none)
ListOf(fn) ==
    CASE fn \in {"state_set", "state_delete"} -> 1
      [] fn = "emit_event" -> 2
      [] fn = "view_command" -> 3
      [] fn = "log" -> 4
      [] OTHER -> 0

\* a step of the guest's run that changes the context: a host call
C11_HostCallAppends ==
    (Running /\ call' = call /\ inst'.context /= inst.context) =>
        /\ last'.ret = SUCCESS \/ last'.fn = "check_host_call_limit"
        /\ AllLists(Unwrap(inst'.context)) =
               IF ListOf(last'.fn) = 0 THEN AllLists(Ctx)
               ELSE Appended(Ctx, ListOf(last'.fn), Unwrap(last'.entry))

\* execute returns a result: its lists are those of the context
C11_ResultDelivers ==
    (call = "execute" /\ call' = "none" /\ IsSome(ires')) =>
        EffectLists(Unwrap(ires')) = EffectLists(Ctx)

IsPrefix(a, b) == Len(a) <= Len(b) /\ SubSeq(b, 1, Len(a)) = a

\* C12: each of the mutation, event and view-command lists in the result of
\* a resume has the corresponding list of the preceding Suspended result as
\* a prefix.
C12_ResumeExtends ==
    [][(call = "resume" /\ call' = "none"
        /\ IsSome(ires) /\ Unwrap(ires).status = "Suspended" /\ IsSome(ires'))
       => \A n \in 1..3 :
            IsPrefix(EffectLists(Unwrap(ires))[n], EffectLists(Unwrap(ires'))[n])]_vars

\* caller p returns from an execute_handler whose execution was aborted by the
\* timeout: the instance it hands to release is still Executing
TimedOutReturn(p) ==
    /\ pc[p] = "release_match" /\ pc'[p] = "idle"
    /\ Unwrap(handle[p]).state = "Executing"

\* the callers holding a permit of the semaphore
PermitHolders == {p \in Callers : pc[p] \in {"acquire_take", "execute", "release"}}

\* C13: an execute_handler whose execution timed out returns Ok with a result
\* of status Error and code TIMEOUT, and when it returns its permit is back:
\* every permit is in the semaphore or held by a caller other than it.
C13_TimeoutIsResult ==
    [][\A p \in Callers :
         TimedOutReturn(p) =>
            /\ returned' /= None
            /\ Unwrap(returned').caller = p
            /\ Unwrap(returned').result.kind = "Ok"
            /\ Unwrap(returned').result.status = "Error"
            /\ Unwrap(returned').result.error = Some("TIMEOUT")
            /\ p \notin PermitHolders'
            /\ permits' + Cardinality(PermitHolders') = max_instances]_vars

C13_Witness ==
    /\ Quiescent
    /\ returned /= None
    /\ Unwrap(returned).result = ErrorResult("TIMEOUT")
    /\ permits = max_instances
    /\ ~shutdown

\* C14: the Timeout result carries the mutations, events and view commands
\* the guest had recorded before the abort.
C14_TimeoutKeepsEffects ==
    [][\A p \in Callers :
         TimedOutReturn(p) =>
            EffectLists(Unwrap(returned').result)
                = EffectLists(Unwrap(Unwrap(handle[p]).context))]_vars

\* the errors of a misuse of the API: a call after shutdown, a suspension id
\* the pool does not hold
MisuseErrors ==
    {"Shutdown(Pool is shut down)", "Shutdown(Pool semaphore closed)", "Suspension"}

\* C15: execute_handler and resume_handler return Err only for a misuse of
\* the API (shutdown, unknown suspension id); an error of the execution or of
\* the resumption comes back as Ok with a result of status Error carrying the
\* error.
C15_ErrOnlyForMisuse ==
    (returned /= None /\ Unwrap(returned).op \in {"execute_handler", "resume_handler"}) =>
        LET r == Unwrap(returned).result IN
        /\ r.kind = "Err" => r.status \in MisuseErrors
        /\ r.kind = "Ok" => r.status \in {"Success", "Suspended", "Error"}
        /\ (r.kind = "Ok" /\ r.status = "Error") => IsSome(r.error)

\* a resume_handler whose resumption failed has returned a structured Error
C15_Witness ==
    /\ returned /= None
    /\ Unwrap(returned).op = "resume_handler"
    /\ Unwrap(returned).result.kind = "Ok"
    /\ Unwrap(returned).result.status = "Error"
    /\ Unwrap(returned).result.error = Some("EXECUTION_ERROR")

\* C16: after a host call was rejected with ResourceLimit the host-call count
\* of the execution context equals max_host_calls.
C16_CountAtCap ==
    (Running /\ last.fn = "check_host_call_limit" /\ last.ret = RESOURCE_LIMIT) =>
        Ctx.host_call_count = u32(max_host_calls)

RECURSIVE SumSizes(_, _)
\* the sizes of the entries of cache c under the keys ks, added up
SumSizes(c, ks) ==
    IF ks = {} THEN 0
    ELSE LET k == CHOOSE x \in ks : TRUE IN c[k].size + SumSizes(c, ks \ {k})

\* C17: the sizes of the entries the memory cache holds add up to at most
\* max_cache_size.
C17_CacheWithinBudget == SumSizes(cache, DOMAIN cache) <= max_cache_size

\* thread t gets compiled' back from a compile step
CompileReturns(t) ==
    \/ cpc[t] = "finish" /\ cpc'[t] = "idle"
    \/ cpc[t] = "idle" /\ cpc'[t] = "idle" /\ compiled' /= compiled

\* what the preceding compile returned, when the compile of thread t that
\* returns in this step is of the same source and follows it directly
Preceding(t) ==
    IF cpc[t] = "finish" THEN expect[t]
    ELSE IF IsSome(prev) /\ Unwrap(prev).source = Unwrap(compiled').source
    THEN prev ELSE None

\* C18: a compile of source S that directly follows a compile of S (no other
\* call of the compiler from the call of the first to the return of the
\* second) returns the bytes the first returned and reports cache_hit.
C18_SecondCompileHits ==
    [][\A t \in Threads :
         (CompileReturns(t) /\ IsSome(Preceding(t))) =>
            /\ Unwrap(compiled').bytecode = Unwrap(Preceding(t)).bytecode
            /\ Unwrap(compiled').cache_hit]_vars

\* the second of two compiles of the source whose artifact is larger than the
\* budget has returned a hit
C18_Witness ==
    /\ IsSome(prev) /\ IsSome(compiled)
    /\ Unwrap(compiled).source = <<"c", "c", "c">>
    /\ Unwrap(compiled).cache_hit
    /\ Unwrap(prev).source = Unwrap(compiled).source
    /\ ~disk_cache_dir
    /\ \A t \in Threads : cpc[t] = "idle"

\* the family of a token and of a required string: what it is written with
\* before its scope
Family(s) == IF s[1] = "ext" THEN <<"ext">> ELSE SubSeq(s, 1, 2)

\* the scope of a required string: what follows its family
ScopeOf(s) == SubSeq(s, Len(Family(s)) + 1, Len(s))

\* C19: the check of the granted tokens against a required string is true
\* iff some granted token has the family of the required string and is the
\* wildcard of the family or has the scope of the required string.
C19_CheckIffFamilyAndScope ==
    IsSome(checked) =>
        (Unwrap(checked) <=>
            \E c \in granted :
                /\ Prefix(c.tag) = Family(required_str)
                /\ c.tag \in WildcardTags \/ c.arg = ScopeOf(required_str))

\* C20: a token written with to_string_repr and parsed back is the token.
C20_RoundTrip ==
    (IsSome(repr) /\ IsSome(parsed)) => Unwrap(parsed) = Some(token)

\* an execute_handler or execute_compiled_handler call of caller p returns a
\* WasmResult
HandlerReturns(p) ==
    /\ pc[p] = "release_match" /\ pc'[p] = "idle"
    /\ Unwrap(returned').result.kind = "Ok"

\* C21: the result of execute_handler reports metrics.cache_hit = false for a
\* source executed for the first time and true for a source executed before,
\* and the result of execute_compiled_handler reports true.
C21_ResultCacheHit ==
    [][HandlerReturns(FacadeCaller) =>
         Unwrap(returned').result.cache_hit =
             IF called[FacadeCaller] = "execute_handler" THEN again[FacadeCaller]
             ELSE TRUE]_vars

\* the guest's ext_suspend succeeds in this step (it alone draws a uuid)
ExtSuspendRecords == Running /\ call' = call /\ next_uuid' /= next_uuid

\* C22: an ext_suspend that succeeds while the suspension recorded earlier in
\* the same run is still pending (no resume has consumed it) leaves that
\* record in place.
C22_PendingSuspensionKept ==
    [][(ExtSuspendRecords /\ guest_suspended) =>
         Unwrap(inst'.context).suspension = Ctx.suspension]_vars

\* C23: a Terminated instance stays as it is whatever is called on it:
\* execute, resume and reset fail on it, terminate leaves it unchanged, no
\* engine run starts, and a call that returns a value returns
\* Err(InvalidState).
C23_TerminatedAbsorbing ==
    [][inst.state = "Terminated" =>
         /\ inst' = inst
         /\ call' = "none"
         /\ ires' /= ires => ires' = Some(ErrResult("InvalidState"))
         /\ ~reset(inst).ok
         /\ \A caps \in CapSets : ~execute_begin(inst, caps, Registry).ok
         /\ ~resume_begin(inst).ok
         /\ terminate(inst) = inst]_vars

\* an instance terminated while suspended, on which a call then failed
C23_Witness ==
    /\ inst.state = "Terminated"
    /\ IsSome(ires) /\ Unwrap(ires) = ErrResult("InvalidState")
    /\ next_uuid > 0

\* caller p returns from resume_handler after instance.resume ran
ResumeReturns(p) == pc[p] = "resume" /\ pc'[p] = "idle"

\* C24: when resume_handler returns a result, the instance it resumed is back
\* in the pool: in the available deque after an outcome that left it Idle, in
\* the suspension map under the new suspension id after a Suspended outcome.
C24_ResumeReleases ==
    [][\A p \in Callers :
         (ResumeReturns(p) /\ Unwrap(returned').result.kind = "Ok") =>
            LET r == Unwrap(returned').result IN
            /\ r.status \in {"Success", "Error"} =>
                 \E i \in 1..Len(available') : available'[i].id = Unwrap(handle[p]).id
            /\ r.status = "Suspended" =>
                 Unwrap(r.suspension).suspension_id \in DOMAIN suspended']_vars

\* caller p returns from a resume_handler that did not get an instance
ResumeNotFound(p) ==
    /\ pc[p] = "idle" /\ pc'[p] = "idle"
    /\ returned' /= returned
    /\ Unwrap(returned').caller = p
    /\ Unwrap(returned').op = "resume_handler"

\* C25: a resume_handler that gets an instance takes a key out of the
\* suspension map; one that does not (its id is not a key) fails with
\* Suspension and leaves active_count, the available deque, the suspension
\* map and the permits as they were.
C25_NotFoundChangesNothing ==
    [][\A p \in Callers :
         /\ (pc[p] = "idle" /\ pc'[p] = "resume") =>
                \E sid \in DOMAIN suspended : suspended' = MapRemove(suspended, sid)
         /\ ResumeNotFound(p) =>
                /\ Unwrap(returned').result = ErrResult("Suspension")
                /\ UNCHANGED <<active_count, available, suspended, permits>>]_vars

\* a resume_handler call has failed with suspension not found
C25_Witness ==
    /\ returned /= None
    /\ Unwrap(returned).op = "resume_handler"
    /\ Unwrap(returned).result = ErrResult("Suspension")
    /\ Quiescent

\* caller p has obtained the instance suspended under sid and has not yet
\* returned from its resume
Resuming(p, sid) ==
    /\ pc[p] = "resume"
    /\ IsSome(handle[p])
    /\ Unwrap(handle[p]).suspension_id = Some(sid)

\* C26: a suspension is resumed at most once: at any time at most one caller
\* holds the instance of a suspension id, a caller obtains it only by removing
\* the id from the suspension map, and from the moment a caller holds it the
\* id is never a key of the map again, so that every later resume_handler
\* with that id fails.
C26_ResumedAtMostOnce ==
    /\ [](\A sid \in 1..MaxPoolUuid :
            Cardinality({p \in Callers : Resuming(p, sid)}) <= 1)
    /\ [][\A p \in Callers, sid \in 1..MaxPoolUuid :
            (~Resuming(p, sid) /\ Resuming(p, sid)') =>
                (sid \in DOMAIN suspended /\ sid \notin DOMAIN suspended')]_vars
    /\ \A sid \in 1..MaxPoolUuid :
         []((\E p \in Callers : Resuming(p, sid)) => [](sid \notin DOMAIN suspended))

\* one caller resumes a suspension while the other caller's resume_handler
\* has failed with suspension not found
C26_Witness ==
    \E p \in Callers, sid \in 1..MaxPoolUuid :
        /\ Resuming(p, sid)
        /\ returned /= None
        /\ Unwrap(returned).caller /= p
        /\ Unwrap(returned).op = "resume_handler"
        /\ Unwrap(returned).result = ErrResult("Suspension")

\* the capability list of ctx holds ext:e or ext:*
ExtGranted(ctx, e) ==
    \E c \in ctx.capabilities :
        \/ c.tag = "Extension" /\ c.arg = e
        \/ c.tag = "ExtensionAll"

\* what ext_suspend(e, m, <<>>) does on the running context
C27_Outcome(e, m) ==
    LET r == ext_suspend(Ctx, e, m, <<>>, next_uuid + 1)
        registered == e \in DOMAIN Ctx.extension_registry
        has_method == registered /\ m \in Ctx.extension_registry[e]
    IN
    /\ r.ctx.suspension /= Ctx.suspension =>
           (registered /\ has_method /\ ExtGranted(Ctx, e) /\ r.ret = SUCCESS)
    /\ (~registered \/ ~has_method) => r.ret = NOT_FOUND
    /\ (registered /\ has_method /\ ~ExtGranted(Ctx, e)) => r.ret = PERMISSION_DENIED
    /\ r.ret /= SUCCESS => r.ctx = Ctx

\* C27: ext_suspend(e, m, args) records a suspension only if e is registered,
\* m is one of its methods and ext:e or ext:* is granted; a missing extension
\* or method yields NOT_FOUND, a missing capability (the extension and method
\* being there) PERMISSION_DENIED, and a failing call leaves the context, its
\* suspension record included, as it was.
C27_ExtSuspendChecks ==
    [][Running =>
         /\ \A e \in ExtNames, m \in Methods : C27_Outcome(e, m)
         /\ (call' = call /\ last' /= last /\ last'.fn = "ext_suspend"
               /\ last'.ret /= SUCCESS) =>
                /\ last'.ret \in {NOT_FOUND, PERMISSION_DENIED}
                /\ Unwrap(inst'.context).suspension = Ctx.suspension]_vars

\* an ext_suspend failed with NOT_FOUND while an earlier suspension is recorded
C27_Witness ==
    /\ Running
    /\ last.fn = "ext_suspend" /\ last.ret = NOT_FOUND
    /\ IsSome(Ctx.suspension)

\* the guest's run takes a step through one of the host functions
HostFunctionCalled ==
    /\ Running /\ call' = call
    /\ inst' /= inst \/ last' /= last
    /\ last'.fn \in {"state_set", "state_delete", "emit_event", "view_command",
                     "ext_suspend", "log"}

\* C28: every host function the guest calls increments the host-call counter
\* of the context by one and, once the counter exceeds max_host_calls, is
\* rejected with RESOURCE_LIMIT and records nothing.
C28_HostCallsCounted ==
    [][HostFunctionCalled =>
         LET after == Unwrap(inst'.context) IN
         /\ after.host_call_count = u32_succ(Ctx.host_call_count)
         /\ u32_gt(after.host_call_count, u32(max_host_calls)) =>
                /\ last'.ret = RESOURCE_LIMIT
                /\ AllLists(after) = AllLists(Ctx)
                /\ after.suspension = Ctx.suspension]_vars

RECURSIVE u32_plus(_, _)
\* x + n as a number
u32_plus(x, n) == IF n = 0 THEN x ELSE u32_plus(u32_succ(x), n - 1)

\* C29: for every limit N the k-th call of check_host_call_limit on one
\* execution context returns Ok when k <= N and RESOURCE_LIMIT when k > N.
C29_LimitAfterN ==
    [][checks' = checks + 1 =>
         LET k == u32_plus(host_before, checks') IN
         host_ret' = Some([panicked |-> FALSE,
                           ret |-> IF u32_gt(k, host_max) THEN RESOURCE_LIMIT
                                   ELSE SUCCESS])]_vars

\* the engine call of execute or resume returns an error
EngineError ==
    /\ Running /\ call' = "none"
    /\ IsSome(ires') /\ Unwrap(ires').kind = "Ok" /\ Unwrap(ires').status = "Error"

\* C30: when the engine returns an error to execute or to resume, the
\* instance returns to Idle and the Error result carries the mutations,
\* events and view commands the context has accumulated.
C30_EngineErrorKeepsEffects ==
    [][EngineError =>
         /\ inst'.state = "Idle"
         /\ EffectLists(Unwrap(ires')) = EffectLists(Ctx)]_vars

\* execute has passed its check and built the context of the invocation
ExecuteStarts == call = "none" /\ call' = "execute"

\* C31: each execute starts from a fresh context (the four lists empty, the
\* host-call counter 0, no suspension record); between two invocations the
\* context is only dropped, never changed; and what execute returns holds
\* the lists and the suspension of that context.  So no result holds an
\* effect or a suspension of an earlier invocation on the instance.
C31_FreshContext ==
    [][/\ ExecuteStarts =>
            LET ctx == Unwrap(inst'.context) IN
            /\ AllLists(ctx) = <<<<>>, <<>>, <<>>, <<>>>>
            /\ ctx.host_call_count = u32(0)
            /\ ctx.suspension = None
       /\ (call = "none" /\ call' = "none") => inst'.context \in {inst.context, None}
       /\ (call = "execute" /\ call' = "none" /\ IsSome(ires')) =>
            /\ EffectLists(Unwrap(ires')) = EffectLists(Ctx)
            /\ IsSome(Unwrap(ires').suspension) =>
                   /\ IsSome(Ctx.suspension)
                   /\ Unwrap(ires').suspension = Some(details(Unwrap(Ctx.suspension)))]_vars

\* an execute on the reused instance returned Success with an effect although
\* an earlier invocation had recorded a suspension
C31_Witness ==
    /\ call = "none" /\ next_uuid > 0
    /\ IsSome(ires) /\ Unwrap(ires).status = "Success"
    /\ Unwrap(ires).suspension = None
    /\ Len(Unwrap(ires).state_mutations) = 1
    /\ inst.state = "Idle" /\ IsSome(inst.context)

\* the key of the source the compile of thread t works on
JobKey(j, t) == compute_cache_key(Unwrap(j[t]).source)

Exceeds(t) == cache_size + Unwrap(Unwrap(job[t]).entry).size > max_cache_size

\* the size of the memory cache once thread t has inserted its entry (an
\* entry under the same key is replaced)
SizeWith(t) ==
    LET key == compute_cache_key(Unwrap(job[t]).source) IN
    SumSizes(cache, DOMAIN cache \ {key}) + Unwrap(Unwrap(job[t]).entry).size

\* the eviction and insertion steps of thread t are as C33 says
C33_Step(t) ==
    /\ (cpc[t] = "evict" /\ cpc'[t] = "put_check") =>
           /\ Exceeds(t)
           /\ cache' = MapRemove(cache, Head(lru))
           /\ lru' = Tail(lru)
    /\ (cpc[t] = "evict" /\ cpc'[t] = "insert") => cache = <<>>
    /\ (cpc[t] = "insert" /\ cpc'[t] = "finish") =>
           (SizeWith(t) <= max_cache_size \/ cache = <<>>)

\* C33: an entry is evicted only while the entry to insert would make the
\* cache exceed its budget, the evicted entry is the least recently used one
\* and the only one removed in the step, and the entry is inserted only when
\* the cache with it is within the budget or the cache is empty.
C33_EvictsLruUntilFits == [][\A t \in Threads : C33_Step(t)]_vars

\* clear_cache of thread t returns while no compile is in progress
ClearReturnsQuiet(t) ==
    /\ cpc[t] = "clear_return" /\ cpc'[t] = "idle"
    /\ \A u \in Threads \ {t} : cpc[u] = "idle"

\* C34: when clear_cache returns with no compile in progress, the memory
\* cache has no entry, cache_size is 0 and the disk cache has no file.
C34_ClearEmptiesBothTiers ==
    [][\A t \in Threads :
         ClearReturnsQuiet(t) =>
            /\ cache' = <<>>
            /\ cache_size' = 0
            /\ disk' = <<>>]_vars

\* C35: cleanup_stale(max_age) removes every suspended instance whose
\* suspension is older than max_age.  An entry the map holds has been
\* suspended for some time, so that cleanup_stale(0) leaves none of them.
C35_StaleSwept ==
    \A sid \in DOMAIN suspended : sid \notin DOMAIN cleanup_stale_retain(suspended, 0)

\* caller p takes its instance in acquire
AcquireTakes(p) == pc[p] = "acquire_take" /\ pc'[p] = "execute"

\* caller p hands an Idle instance to the match of release
ReleasesIdle(p) ==
    /\ pc[p] = "release_match" /\ pc'[p] = "idle"
    /\ Unwrap(handle[p]).state = "Idle"

\* C36: release puts an Idle instance at the back of the available deque and
\* acquire takes the instance at the back of the deque, creating an instance
\* only when the deque is empty; so the acquire that follows release(i) with
\* no release or acquire in between gets instance i.
C36_Lifo ==
    [][\A p \in Callers :
         /\ ReleasesIdle(p) =>
                /\ Len(available') = Len(available) + 1
                /\ SubSeq(available', 1, Len(available)) = available
                /\ available'[Len(available')].id = Unwrap(handle[p]).id
         /\ AcquireTakes(p) =>
                IF available /= <<>>
                THEN /\ Unwrap(handle'[p]).id = available[Len(available)].id
                     /\ available' = SubSeq(available, 1, Len(available) - 1)
                     /\ instances_created' = instances_created
                ELSE /\ instances_created' = instances_created + 1
                     /\ Unwrap(handle'[p]).id = instances_created']_vars

\* a caller holds an instance it took from a deque of more than one
C36_Witness ==
    \E p \in Callers :
        /\ pc[p] = "execute" /\ reused[p]
        /\ Len(available) >= 1
        /\ \A i \in 1..Len(available) : available[i].id /= Unwrap(handle[p]).id

\* a call of shutdown has returned and none is in progress
ShutdownReturned ==
    /\ shutdown
    /\ \A p \in Callers : pc[p] \notin {"shutdown_close", "shutdown_drain"}

\* C37: once shutdown has returned, the available deque and the suspension
\* map are empty and stay empty.
C37_EmptyAfterShutdown ==
    ShutdownReturned => (available = <<>> /\ suspended = <<>>)

\* the ids of the instances that exist
LiveIds == {i.id : i \in Live}

\* C38: an instance whose execution was cut off by the timeout reaches release
\* in state Executing and is dropped by it: when the call returns the instance
\* is neither in the deque, nor in the suspended map, nor held by a caller,
\* and an instance that was created and exists no more is never stored or
\* handed out again by a later acquire or resume_handler.
C38_TimedOutNeverReused ==
    [][/\ \A p \in Callers :
            TimedOutReturn(p) =>
               /\ Unwrap(handle[p]).id \notin LiveIds'
               /\ Len(available') = Len(available)
               /\ suspended' = suspended
       /\ \A id \in 1..instances_created :
            id \notin LiveIds => id \notin LiveIds']_vars

\* a timed-out execution of instance 1 has returned, instance 1 exists no
\* more, and a later acquire handed out a second, new instance
C38_Witness ==
    /\ returned /= None
    /\ Unwrap(returned).result.kind = "Ok"
    /\ Unwrap(returned).result.error = Some("TIMEOUT")
    /\ instances_created = 2
    /\ 1 \notin LiveIds
    /\ \E p \in Callers :
         /\ pc[p] = "execute"
         /\ Unwrap(handle[p]).id = 2
         /\ ~reused[p]

\* an instance as reset() leaves it
IsReset(i) == i.state = "Idle" /\ i.context = None /\ i.suspension_id = None

\* caller p pops an instance from the deque in acquire
AcquirePops(p) == pc[p] = "acquire_take" /\ pc'[p] /= "acquire_take" /\ Len(available) > 0

\* C39: every instance in the available deque is Idle with no execution
\* context and no suspension id, so that no Executing, Suspended or
\* Terminated instance is in the deque, and the reset that acquire performs
\* on a popped instance succeeds: acquire hands the popped instance out and
\* does not return an error.
C39_DequeHoldsIdle ==
    /\ [](\A k \in 1..Len(available) : IsReset(available[k]))
    /\ [][\A p \in Callers :
            AcquirePops(p) =>
               /\ reset(available[Len(available)]).ok
               /\ pc'[p] = "execute"
               /\ handle'[p] = Some(available[Len(available)])
               /\ returned' = returned]_vars

\* a caller executes on an instance that came back from the deque while
\* another released instance waits in the deque
C39_Witness ==
    /\ Len(available) > 0
    /\ \E p \in Callers :
         /\ pc[p] = "execute"
         /\ reused[p]
         /\ IsReset(Unwrap(handle[p]))

\* C40: whenever no thread holds the write lock of the cache, cache_size is
\* the sum of the sizes of the entries in the memory cache, whatever the
\* interleaving of the insertions, replacements and evictions of compile
\* with clear_cache.
C40_CounterMatchesEntries ==
    ~CacheLocked => cache_size = SumSizes(cache, DOMAIN cache)

\* both threads have inserted an entry under the same key, the second
\* replacing the first, and the counter counts the entry once
C40_Witness ==
    /\ \A t \in Threads : cpc[t] = "finish"
    /\ \A t, u \in Threads : JobKey(job, t) = JobKey(job, u)
    /\ \E t \in Threads :
         /\ DOMAIN cache = {JobKey(job, t)}
         /\ cache_size = cache[JobKey(job, t)].size
         /\ cache_size > 0

====
